---- MODULE Spec2Model ----
(***************************************************************************)
(* BNI chapter analytics: spreadsheet ingestion (ExcelProcessorService),   *)
(* name normalisation (Member.normalize_name) and matrix derivation        *)
(* (MatrixGenerator), modelled from the Python sources.                    *)
(*                                                                         *)
(* A Python str is a sequence of one-character strings; Python None is the *)
(* one-element sequence None, which no str equals.                         *)
(***************************************************************************)
EXTENDS Integers, Sequences, FiniteSets, TLC

VARIABLES store, before, returned, clock, calls, nn, mg, cmp, runs

vars == <<store, before, returned, clock, calls, nn, mg, cmp, runs>>

(***************************************************************************)
(* Python str primitives                                                   *)
(***************************************************************************)
None == <<"<None>">>

UpperCase == <<"A","B","C","D","E","F","G","H","I","J","K","L","M",
               "N","O","P","Q","R","S","T","U","V","W","X","Y","Z">>
LowerCase == <<"a","b","c","d","e","f","g","h","i","j","k","l","m",
               "n","o","p","q","r","s","t","u","v","w","x","y","z">>

Whitespace == {" ", "\t"}

\* str.lower() on one character
LowerChar(c) ==
    IF \E i \in DOMAIN UpperCase : UpperCase[i] = c
    THEN LowerCase[CHOOSE i \in DOMAIN UpperCase : UpperCase[i] = c]
    ELSE c

\* str.upper() on one character
UpperChar(c) ==
    IF \E i \in DOMAIN LowerCase : LowerCase[i] = c
    THEN UpperCase[CHOOSE i \in DOMAIN LowerCase : LowerCase[i] = c]
    ELSE c

\* str.lower()
Lower(s) == [i \in DOMAIN s |-> LowerChar(s[i])]

\* str.upper()
Upper(s) == [i \in DOMAIN s |-> UpperChar(s[i])]

\* str.split() with no argument: maximal runs of non-whitespace
RECURSIVE SplitAcc(_, _, _, _)
SplitAcc(s, i, cur, toks) ==
    IF i > Len(s)
    THEN IF cur = <<>> THEN toks ELSE Append(toks, cur)
    ELSE IF s[i] \in Whitespace
         THEN SplitAcc(s, i + 1, <<>>, IF cur = <<>> THEN toks ELSE Append(toks, cur))
         ELSE SplitAcc(s, i + 1, Append(cur, s[i]), toks)

Split(s) == SplitAcc(s, 1, <<>>, <<>>)

\* sep.join(parts)
RECURSIVE Join(_, _)
Join(parts, sep) ==
    IF parts = <<>> THEN <<>>
    ELSE IF Len(parts) = 1 THEN parts[1]
    ELSE parts[1] \o sep \o Join(Tail(parts), sep)

\* str.strip()
RECURSIVE LStrip(_)
LStrip(s) == IF s # <<>> /\ s[1] \in Whitespace THEN LStrip(Tail(s)) ELSE s

RECURSIVE RStrip(_)
RStrip(s) ==
    IF s # <<>> /\ s[Len(s)] \in Whitespace THEN RStrip(SubSeq(s, 1, Len(s) - 1)) ELSE s

Strip(s) == LStrip(RStrip(s))

\* Python truthiness of an Optional[str]
Truthy(x) == x # None /\ x # <<>>

(***************************************************************************)
(* Member.normalize_name                                                   *)
(***************************************************************************)
prefixes == { <<"m","r",".">>, <<"m","r","s",".">>, <<"m","s",".">>,
              <<"d","r",".">>, <<"p","r","o","f",".">> }

suffixes == { <<"j","r",".">>, <<"s","r",".">>, <<"i","i">>,
              <<"i","i","i">>, <<"i","v">> }

\* the variant of normalize_name that forgets to lowercase
normalize_name_nolower(name) ==
    IF ~Truthy(name) THEN <<>>
    ELSE LET RemovePrefix(parts) ==
                 IF parts # <<>> /\ parts[1] \in prefixes THEN Tail(parts) ELSE parts
             RemoveSuffix(parts) ==
                 IF parts # <<>> /\ parts[Len(parts)] \in suffixes
                 THEN SubSeq(parts, 1, Len(parts) - 1) ELSE parts
         IN Join(RemoveSuffix(RemovePrefix(Split(Join(Split(name), <<" ">>)))), <<" ">>)

normalize_name(name) ==
    IF ~Truthy(name) THEN <<>>
    ELSE LET normalized == Join(Split(Lower(name)), <<" ">>)
             RemovePrefix(parts) ==
                 IF parts # <<>> /\ parts[1] \in prefixes THEN Tail(parts) ELSE parts
             RemoveSuffix(parts) ==
                 IF parts # <<>> /\ parts[Len(parts)] \in suffixes
                 THEN SubSeq(parts, 1, Len(parts) - 1) ELSE parts
         IN Join(RemoveSuffix(RemovePrefix(Split(normalized))), <<" ">>)

(***************************************************************************)
(* Inputs of the normalisation runs: a name is written as a sequence of    *)
(* lowercase tokens, optionally decorated with one leading title and one   *)
(* trailing suffix, and rendered in a letter case and a spacing.           *)
(***************************************************************************)
MaxTokens == 2

NameWords == { <<"a","l">>, <<"j","r">> }

TokenPool == NameWords \cup { <<"m","r",".">>, <<"d","r",".">>, <<"j","r",".">>, <<"i","i">> }

SeqsUpTo(S, n) == UNION { [1..k -> S] : k \in 0..n }

CaseStyles == {"lower", "upper", "capital"}

Gaps == { <<" ">>, <<" ", "\t", " ">> }

Capital(tok) == IF tok = <<>> THEN tok ELSE <<UpperChar(tok[1])>> \o Tail(tok)

ApplyCase(tok, cs) ==
    CASE cs = "lower" -> tok
      [] cs = "upper" -> Upper(tok)
      [] cs = "capital" -> Capital(tok)

\* the spelling of a token sequence: cased tokens, separated by gap; a wide
\* gap also pads both ends
Render(toks, cs, gap) ==
    LET body == Join([i \in DOMAIN toks |-> ApplyCase(toks[i], cs)], gap)
    IN IF Len(gap) > 1 THEN gap \o body \o gap ELSE body

Decorate(title, toks, suffix) ==
    (IF title = None THEN <<>> ELSE <<title>>) \o toks
        \o (IF suffix = None THEN <<>> ELSE <<suffix>>)

NNInit ==
    \/ \E toks \in SeqsUpTo(TokenPool, MaxTokens),
          title \in prefixes \cup {None}, suffix \in suffixes \cup {None},
          cs \in CaseStyles, gap \in Gaps :
         nn = [plain |-> toks, title |-> title, suffix |-> suffix,
               input |-> Render(Decorate(title, toks, suffix), cs, gap),
               once |-> None, twice |-> None, stage |-> "input"]
    \/ nn = [plain |-> <<>>, title |-> None, suffix |-> None, input |-> None,
             once |-> None, twice |-> None, stage |-> "input"]

MGIdle == [members |-> <<>>, referrals |-> <<>>, matrix |-> None, stage |-> "idle"]

NNIdle == [plain |-> <<>>, title |-> None, suffix |-> None, input |-> None,
           once |-> None, twice |-> None, stage |-> "idle"]

\* normalized = Member.normalize_name(input)
NormalizeOnce ==
    /\ nn.stage = "input"
    /\ nn' = [nn EXCEPT !.once = normalize_name(nn.input), !.stage = "once"]
    /\ UNCHANGED <<store, before, returned, clock, calls, mg, cmp, runs>>

\* Member.normalize_name(normalized)
NormalizeTwice ==
    /\ nn.stage = "once"
    /\ nn' = [nn EXCEPT !.twice = normalize_name(nn.once), !.stage = "twice"]
    /\ UNCHANGED <<store, before, returned, clock, calls, mg, cmp, runs>>

NextNorm == NormalizeOnce \/ NormalizeTwice


(***************************************************************************)
(* Claims on Member.normalize_name                                         *)
(***************************************************************************)

\* C8: normalisation is idempotent: normalize_name(normalize_name(s)) equals
\* normalize_name(s) for every name s, also with several titles or suffixes.
C8_Idempotent == nn.stage = "twice" => nn.twice = nn.once

\* a name carrying two leading titles has been normalised twice
C8_Witness ==
    /\ nn.stage = "twice"
    /\ nn.title # None
    /\ nn.plain # <<>> /\ nn.plain[1] \in prefixes

\* the written name itself carries no leading title and no trailing suffix
PlainName(toks) ==
    /\ toks # <<>> => toks[1] \notin prefixes
    /\ toks # <<>> => toks[Len(toks)] \notin suffixes

C9_WitnessNull == nn.stage = "once" /\ nn.input = None /\ nn.once = <<>>

(***************************************************************************)
(* MatrixGenerator                                                         *)
(***************************************************************************)
\* code points, in increasing order, of the characters that occur in names
CodeOrder == <<"\t", " ", "$", ",", "-", ".", "0", "1", "2", "3", "4", "5", "6",
               "7", "8", "9">> \o UpperCase \o LowerCase

Code(c) == CHOOSE i \in DOMAIN CodeOrder : CodeOrder[i] = c

\* Python's a < b on str
RECURSIVE StrLess(_, _)
StrLess(a, b) ==
    IF b = <<>> THEN FALSE
    ELSE IF a = <<>> THEN TRUE
    ELSE IF a[1] = b[1] THEN StrLess(Tail(a), Tail(b))
    ELSE Code(a[1]) < Code(b[1])

\* Member.full_name
full_name(m) == m.first_name \o <<" ">> \o m.last_name

\* sorted(xs, key=full_name) is stable: x goes after every element whose key
\* is not greater
RECURSIVE InsertByFullName(_, _)
InsertByFullName(sorted, m) ==
    IF sorted = <<>> THEN <<m>>
    ELSE IF StrLess(full_name(m), full_name(sorted[1]))
         THEN <<m>> \o sorted
         ELSE <<sorted[1]>> \o InsertByFullName(Tail(sorted), m)

RECURSIVE SortedByFullName(_)
SortedByFullName(ms) ==
    IF ms = <<>> THEN <<>>
    ELSE InsertByFullName(SortedByFullName(SubSeq(ms, 1, Len(ms) - 1)), ms[Len(ms)])

\* MatrixGenerator.__init__
MatrixGenerator(chapter_members) ==
    LET members == SortedByFullName(chapter_members)
    IN [members |-> members,
        member_names |-> [i \in DOMAIN members |-> full_name(members[i])]]

\* pd.DataFrame(0, index=names, columns=names)
ZeroFrame(names) ==
    [index |-> names,
     values |-> [i \in DOMAIN names |-> [j \in DOMAIN names |-> 0]]]

\* matrix.loc[row, col] += 1
LocIncrement(df, row, col) ==
    [df EXCEPT !.values =
        [i \in DOMAIN df.index |-> [j \in DOMAIN df.index |->
            IF df.index[i] = row /\ df.index[j] = col
            THEN df.values[i][j] + 1 ELSE df.values[i][j]]]]

\* name in matrix.index
InIndex(df, name) == \E i \in DOMAIN df.index : df.index[i] = name

\* the loop body of generate_referral_matrix with giver and receiver swapped
ReferralStepSwapped(matrix, referral) ==
    LET giver_name == full_name(referral.giver)
        receiver_name == full_name(referral.receiver)
    IN IF InIndex(matrix, giver_name) /\ InIndex(matrix, receiver_name)
       THEN LocIncrement(matrix, receiver_name, giver_name)
       ELSE matrix

\* the loop body of generate_referral_matrix
ReferralStep(matrix, referral) ==
    LET giver_name == full_name(referral.giver)
        receiver_name == full_name(referral.receiver)
    IN IF InIndex(matrix, giver_name) /\ InIndex(matrix, receiver_name)
       THEN LocIncrement(matrix, giver_name, receiver_name)
       ELSE matrix

RECURSIVE ReferralLoop(_, _)
ReferralLoop(matrix, referrals) ==
    IF referrals = <<>> THEN matrix
    ELSE ReferralLoop(ReferralStep(matrix, referrals[1]), Tail(referrals))

\* MatrixGenerator.generate_referral_matrix
generate_referral_matrix(gen, referrals) ==
    ReferralLoop(ZeroFrame(gen.member_names), referrals)

\* a variant that records a meeting for its first member only
OneToOneStepOneWay(matrix, meeting) ==
    LET member1_name == full_name(meeting.member1)
        member2_name == full_name(meeting.member2)
    IN IF InIndex(matrix, member1_name) /\ InIndex(matrix, member2_name)
       THEN LocIncrement(matrix, member1_name, member2_name)
       ELSE matrix

\* the loop body of generate_one_to_one_matrix
OneToOneStep(matrix, meeting) ==
    LET member1_name == full_name(meeting.member1)
        member2_name == full_name(meeting.member2)
    IN IF InIndex(matrix, member1_name) /\ InIndex(matrix, member2_name)
       THEN LocIncrement(LocIncrement(matrix, member1_name, member2_name),
                         member2_name, member1_name)
       ELSE matrix

RECURSIVE OneToOneLoop(_, _)
OneToOneLoop(matrix, one_to_ones) ==
    IF one_to_ones = <<>> THEN matrix
    ELSE OneToOneLoop(OneToOneStep(matrix, one_to_ones[1]), Tail(one_to_ones))

\* MatrixGenerator.generate_one_to_one_matrix
generate_one_to_one_matrix(gen, one_to_ones) ==
    OneToOneLoop(ZeroFrame(gen.member_names), one_to_ones)

\* matrix.loc[row, col]: with names that are distinct, one cell
Loc(df, row, col) ==
    LET i == CHOOSE i \in DOMAIN df.index : df.index[i] = row
        j == CHOOSE j \in DOMAIN df.index : df.index[j] = col
    IN df.values[i][j]

\* a variant with the values of the two one-sided relationships exchanged
CombinationCellExchanged(ref_matrix, oto_matrix, names, i, j) ==
    IF i = j THEN 0
    ELSE LET has_referral == Loc(ref_matrix, names[i], names[j]) > 0
             has_oto == Loc(oto_matrix, names[i], names[j]) > 0
         IN IF has_referral /\ has_oto THEN 3
            ELSE IF has_referral THEN 1
            ELSE IF has_oto THEN 2
            ELSE 0

\* the cell the double loop of generate_combination_matrix writes at (i, j)
CombinationCell(ref_matrix, oto_matrix, names, i, j) ==
    IF i = j THEN 0
    ELSE LET has_referral == Loc(ref_matrix, names[i], names[j]) > 0
             has_oto == Loc(oto_matrix, names[i], names[j]) > 0
         IN IF has_referral /\ has_oto THEN 3
            ELSE IF has_referral THEN 2
            ELSE IF has_oto THEN 1
            ELSE 0

\* MatrixGenerator.generate_combination_matrix
generate_combination_matrix(gen, referrals, one_to_ones) ==
    LET ref_matrix == generate_referral_matrix(gen, referrals)
        oto_matrix == generate_one_to_one_matrix(gen, one_to_ones)
        names == gen.member_names
    IN [index |-> names,
        values |-> [i \in DOMAIN names |-> [j \in DOMAIN names |->
                       CombinationCell(ref_matrix, oto_matrix, names, i, j)]]]

(***************************************************************************)
(* ExcelProcessorService: extraction of interaction records from a table   *)
(***************************************************************************)
\* COLUMN_MAPPINGS
col_giver_name == 0
col_receiver_name == 1
col_slip_type == 3
col_inside_outside == 5
col_tyfcb_amount == 6
col_detail == 9

\* SLIP_TYPES, in the order the dict is iterated
SLIP_TYPES ==
    << [type |-> "referral",
        variations |-> << <<"r","e","f","e","r","r","a","l">>, <<"r","e","f">> >>],
       [type |-> "one_to_one",
        variations |-> << <<"o","n","e"," ","t","o"," ","o","n","e">>, <<"o","t","o">>, <<"1","t","o","1">>, <<"1","-","t","o","-","1">>, <<"o","n","e","-","t","o","-","o","n","e">> >>],
       [type |-> "tyfcb",
        variations |-> << <<"t","y","f","c","b">>, <<"t","h","a","n","k"," ","y","o","u"," ","f","o","r"," ","c","l","o","s","e","d"," ","b","u","s","i","n","e","s","s">>, <<"c","l","o","s","e","d"," ","b","u","s","i","n","e","s","s">> >>] >>

\* the member that stands for "no member" (Python None where a Member is expected)
NoMember ==
    [id |-> 0, chapter |-> "", first_name |-> <<>>, last_name |-> <<>>,
     normalized_name |-> <<>>, is_active |-> FALSE]

\* sub in s, on str
Contains(s, sub) ==
    \E i \in 1..(Len(s) - Len(sub) + 1) : SubSeq(s, i, i + Len(sub) - 1) = sub

\* str.replace(ch, '')
Remove(s, ch) == SelectSeq(s, LAMBDA c : c # ch)

\* _get_cell_value: a cell past the end of the row, or a blank (NaN) cell, is None
get_cell_value(row, column_index) ==
    IF column_index >= Len(row) \/ row[column_index + 1] = None
    THEN None
    ELSE Strip(row[column_index + 1])

\* Member.objects.filter(chapter=chapter, is_active=True) under Meta.ordering
\* ['first_name', 'last_name']
MemberBefore(a, b) ==
    \/ StrLess(a.first_name, b.first_name)
    \/ a.first_name = b.first_name /\ StrLess(a.last_name, b.last_name)
    \/ a.first_name = b.first_name /\ a.last_name = b.last_name /\ a.id < b.id

RECURSIVE OrderedMembers(_)
OrderedMembers(S) ==
    IF S = {} THEN <<>>
    ELSE LET m == CHOOSE x \in S : \A y \in S \ {x} : MemberBefore(x, y)
         IN <<m>> \o OrderedMembers(S \ {m})

ActiveMembers(members, chapter) ==
    OrderedMembers({m \in members : m.chapter = chapter /\ m.is_active})

\* lookup[key] = member
DictSet(d, key, member) ==
    [k \in DOMAIN d \cup {key} |-> IF k = key THEN member ELSE d[k]]

\* the loop body without the test on the first name
LookupAddOverwrite(lookup, member) ==
    LET l1 == DictSet(lookup, member.normalized_name, member)
        fullname == Strip(Lower(member.first_name \o <<" ">> \o member.last_name))
        l2 == DictSet(l1, fullname, member)
    IN DictSet(l2, Lower(member.first_name), member)

\* the loop body of _get_members_lookup
LookupAdd(lookup, member) ==
    LET l1 == DictSet(lookup, member.normalized_name, member)
        fullname == Strip(Lower(member.first_name \o <<" ">> \o member.last_name))
        l2 == DictSet(l1, fullname, member)
    IN IF Lower(member.first_name) \notin DOMAIN l2
       THEN DictSet(l2, Lower(member.first_name), member)
       ELSE l2

RECURSIVE LookupLoop(_, _)
LookupLoop(lookup, ms) ==
    IF ms = <<>> THEN lookup ELSE LookupLoop(LookupAdd(lookup, ms[1]), Tail(ms))

\* _get_members_lookup
get_members_lookup(members, chapter) ==
    LookupLoop([k \in {} |-> NoMember], ActiveMembers(members, chapter))

Found(member) == [member |-> member, warnings |-> <<>>]

\* a variant of _find_member_by_name that appends no warning
find_member_by_name_silent(name, lookup) ==
    IF ~Truthy(name) THEN Found(NoMember)
    ELSE LET Try(n, normalized, v1, v2) ==
                 IF n = <<>> THEN Found(NoMember)
                 ELSE IF normalized \in DOMAIN lookup THEN Found(lookup[normalized])
                 ELSE IF v1 \in DOMAIN lookup THEN Found(lookup[v1])
                 ELSE IF v2 \in DOMAIN lookup THEN Found(lookup[v2])
                 ELSE Found(NoMember)
             Stripped(n) == Try(n, normalize_name(n), Lower(n), Join(Split(Lower(n)), <<" ">>))
         IN Stripped(Strip(name))

\* _find_member_by_name: the member found (NoMember for None) and the
\* warnings it appends
find_member_by_name(name, lookup) ==
    IF ~Truthy(name) THEN Found(NoMember)
    ELSE LET Try(n, normalized, v1, v2) ==
                 IF n = <<>> THEN Found(NoMember)
                 ELSE IF normalized \in DOMAIN lookup THEN Found(lookup[normalized])
                 ELSE IF v1 \in DOMAIN lookup THEN Found(lookup[v1])
                 ELSE IF v2 \in DOMAIN lookup THEN Found(lookup[v2])
                 ELSE [member |-> NoMember,
                       warnings |-> << [row |-> 0, text |-> "Could not find member",
                                        arg |-> n] >>]
             Stripped(n) == Try(n, normalize_name(n), Lower(n), Join(Split(Lower(n)), <<" ">>))
         IN Stripped(Strip(name))

\* _normalize_slip_type: the standard type, or "" for None
RECURSIVE SlipTypeLoop(_, _)
SlipTypeLoop(slip_type, types) ==
    IF types = <<>> THEN ""
    ELSE IF \E i \in DOMAIN types[1].variations :
                Contains(slip_type, types[1].variations[i])
         THEN types[1].type
         ELSE SlipTypeLoop(slip_type, Tail(types))

\* _normalize_slip_type comparing the cell as it is written
normalize_slip_type_cased(slip_type) ==
    IF ~Truthy(slip_type) THEN ""
    ELSE SlipTypeLoop(Strip(slip_type), SLIP_TYPES)

normalize_slip_type(slip_type) ==
    IF ~Truthy(slip_type) THEN ""
    ELSE SlipTypeLoop(Strip(Lower(slip_type)), SLIP_TYPES)

Digits == <<"0", "1", "2", "3", "4", "5", "6", "7", "8", "9">>

IsDigits(s) == s # <<>> /\ \A i \in DOMAIN s : \E d \in DOMAIN Digits : Digits[d] = s[i]

\* the value of a run of decimal digits
RECURSIVE DigitsValue(_)
DigitsValue(s) ==
    IF s = <<>> THEN 0
    ELSE 10 * DigitsValue(SubSeq(s, 1, Len(s) - 1))
         + (CHOOSE d \in DOMAIN Digits : Digits[d] = s[Len(s)]) - 1

\* _parse_currency_amount, on whole amounts: float() of an optional sign and
\* digits; any other text raises ValueError, which gives 0.0
parse_currency_amount(amount_str) ==
    IF ~Truthy(amount_str) THEN 0
    ELSE LET cleaned == Strip(Remove(Remove(amount_str, "$"), ","))
         IN IF cleaned = <<>> THEN 0
            ELSE IF IsDigits(cleaned) THEN DigitsValue(cleaned)
            ELSE IF cleaned[1] \in {"-", "+"} /\ IsDigits(Tail(cleaned))
                 THEN (IF cleaned[1] = "-" THEN -1 ELSE 1) * DigitsValue(Tail(cleaned))
            ELSE 0

Warn(row_idx, text, arg) == [row |-> row_idx + 1, text |-> text, arg |-> arg]

\* what a _prepare_* call returns: the object (made is FALSE for None) and
\* the warnings appended
Prepared(obj, warnings) == [made |-> TRUE, obj |-> obj, warnings |-> warnings]

Dropped(warnings) == [made |-> FALSE, obj |-> NoMember, warnings |-> warnings]

\* _prepare_referral comparing the two names instead of the two members
prepare_referral_by_name(row, row_idx, giver_name, receiver_name, members_lookup) ==
    IF ~(Truthy(giver_name) /\ Truthy(receiver_name))
    THEN Dropped(<<Warn(row_idx, "Referral missing giver or receiver name", <<>>)>>)
    ELSE LET Check(g, r) ==
                 IF g.member = NoMember
                 THEN Dropped(g.warnings \o r.warnings
                              \o <<Warn(row_idx, "Could not find giver", giver_name)>>)
                 ELSE IF r.member = NoMember
                 THEN Dropped(g.warnings \o r.warnings
                              \o <<Warn(row_idx, "Could not find receiver", receiver_name)>>)
                 ELSE IF giver_name = receiver_name
                 THEN Dropped(g.warnings \o r.warnings
                              \o <<Warn(row_idx, "Self-referral detected, skipping", <<>>)>>)
                 ELSE Prepared([giver |-> g.member, receiver |-> r.member],
                               g.warnings \o r.warnings)
         IN Check(find_member_by_name(giver_name, members_lookup),
                  find_member_by_name(receiver_name, members_lookup))

\* _prepare_referral
prepare_referral(row, row_idx, giver_name, receiver_name, members_lookup) ==
    IF ~(Truthy(giver_name) /\ Truthy(receiver_name))
    THEN Dropped(<<Warn(row_idx, "Referral missing giver or receiver name", <<>>)>>)
    ELSE LET Check(g, r) ==
                 IF g.member = NoMember
                 THEN Dropped(g.warnings \o r.warnings
                              \o <<Warn(row_idx, "Could not find giver", giver_name)>>)
                 ELSE IF r.member = NoMember
                 THEN Dropped(g.warnings \o r.warnings
                              \o <<Warn(row_idx, "Could not find receiver", receiver_name)>>)
                 ELSE IF g.member.id = r.member.id
                 THEN Dropped(g.warnings \o r.warnings
                              \o <<Warn(row_idx, "Self-referral detected, skipping", <<>>)>>)
                 ELSE Prepared([giver |-> g.member, receiver |-> r.member],
                               g.warnings \o r.warnings)
         IN Check(find_member_by_name(giver_name, members_lookup),
                  find_member_by_name(receiver_name, members_lookup))

\* _prepare_one_to_one
prepare_one_to_one(row, row_idx, giver_name, receiver_name, members_lookup) ==
    IF ~(Truthy(giver_name) /\ Truthy(receiver_name))
    THEN Dropped(<<Warn(row_idx, "One-to-one missing member names", <<>>)>>)
    ELSE LET Check(m1, m2) ==
                 IF m1.member = NoMember
                 THEN Dropped(m1.warnings \o m2.warnings
                              \o <<Warn(row_idx, "Could not find member", giver_name)>>)
                 ELSE IF m2.member = NoMember
                 THEN Dropped(m1.warnings \o m2.warnings
                              \o <<Warn(row_idx, "Could not find member", receiver_name)>>)
                 ELSE IF m1.member.id = m2.member.id
                 THEN Dropped(m1.warnings \o m2.warnings
                              \o <<Warn(row_idx, "Self-meeting detected, skipping", <<>>)>>)
                 ELSE Prepared([member1 |-> m1.member, member2 |-> m2.member],
                               m1.warnings \o m2.warnings)
         IN Check(find_member_by_name(giver_name, members_lookup),
                  find_member_by_name(receiver_name, members_lookup))

\* _prepare_tyfcb
prepare_tyfcb(row, row_idx, giver_name, receiver_name, members_lookup) ==
    IF ~Truthy(receiver_name)
    THEN Dropped(<<Warn(row_idx, "TYFCB missing receiver name", <<>>)>>)
    ELSE LET Build(r, g, amount_str, amount, inside_outside, detail) ==
                 IF amount <= 0
                 THEN Dropped(r.warnings \o g.warnings
                              \o <<Warn(row_idx, "Invalid TYFCB amount", amount_str)>>)
                 ELSE Prepared(
                        [receiver |-> r.member, giver |-> g.member, amount |-> amount,
                         within_chapter |-> (Truthy(inside_outside)
                                             /\ Strip(Lower(inside_outside)) = <<"i","n","s","i","d","e">>),
                         description |-> IF Truthy(detail) THEN detail ELSE <<>>],
                        r.warnings \o g.warnings)
             Amount(r, g, amount_str) ==
                 Build(r, g, amount_str, parse_currency_amount(amount_str),
                       get_cell_value(row, col_inside_outside),
                       get_cell_value(row, col_detail))
             Receiver(r) ==
                 IF r.member = NoMember
                 THEN Dropped(r.warnings
                              \o <<Warn(row_idx, "Could not find receiver", receiver_name)>>)
                 ELSE Amount(r,
                             IF Truthy(giver_name)
                             THEN find_member_by_name(giver_name, members_lookup)
                             ELSE Found(NoMember),
                             get_cell_value(row, col_tyfcb_amount))
         IN Receiver(find_member_by_name(receiver_name, members_lookup))

\* the accumulators of _process_dataframe before any row
EmptyBatch ==
    [referrals_to_create |-> <<>>, one_to_ones_to_create |-> <<>>,
     tyfcbs_to_create |-> <<>>, total_processed |-> 0, warnings |-> <<>>]

\* the first pass of _process_dataframe on the row at index idx
ProcessRow(acc, row, idx, members_lookup) ==
    IF idx < 3 THEN acc
    ELSE LET counted == [acc EXCEPT !.total_processed = @ + 1]
             AddReferral(p) ==
                 [counted EXCEPT !.warnings = @ \o p.warnings,
                                 !.referrals_to_create =
                                     IF p.made THEN Append(@, p.obj) ELSE @]
             AddOneToOne(p) ==
                 [counted EXCEPT !.warnings = @ \o p.warnings,
                                 !.one_to_ones_to_create =
                                     IF p.made THEN Append(@, p.obj) ELSE @]
             AddTyfcb(p) ==
                 [counted EXCEPT !.warnings = @ \o p.warnings,
                                 !.tyfcbs_to_create =
                                     IF p.made THEN Append(@, p.obj) ELSE @]
             Dispatch(giver_name, receiver_name, slip_type, kind) ==
                 CASE kind = "" ->
                        [acc EXCEPT !.warnings =
                            @ \o <<Warn(idx, "Unknown slip type", slip_type)>>]
                   [] kind = "referral" ->
                        AddReferral(prepare_referral(row, idx, giver_name, receiver_name,
                                                     members_lookup))
                   [] kind = "one_to_one" ->
                        AddOneToOne(prepare_one_to_one(row, idx, giver_name, receiver_name,
                                                       members_lookup))
                   [] kind = "tyfcb" ->
                        AddTyfcb(prepare_tyfcb(row, idx, giver_name, receiver_name,
                                               members_lookup))
             Cells(giver_name, receiver_name, slip_type) ==
                 IF ~Truthy(slip_type) THEN acc
                 ELSE Dispatch(giver_name, receiver_name, slip_type,
                               normalize_slip_type(slip_type))
         IN Cells(get_cell_value(row, col_giver_name),
                  get_cell_value(row, col_receiver_name),
                  get_cell_value(row, col_slip_type))

RECURSIVE RowLoop(_, _, _, _)
RowLoop(acc, df, idx, members_lookup) ==
    IF idx >= Len(df) THEN acc
    ELSE RowLoop(ProcessRow(acc, df[idx + 1], idx, members_lookup), df, idx + 1,
                 members_lookup)

\* the first pass of _process_dataframe: validate and prepare the objects
PrepareObjects(df, members_lookup) == RowLoop(EmptyBatch, df, 0, members_lookup)

(***************************************************************************)
(* The store (Django ORM tables) and the operations on it.  A stored        *)
(* interaction record carries, besides its columns, the chapter and period *)
(* of the run that extracted it (ingested_for), which no code reads.       *)
(***************************************************************************)
\* a JSONField left at its default, {}
EmptyDict == [cached |-> FALSE, members |-> <<>>, matrix |-> <<>>]

NoFile == [name |-> "", parse_ok |-> FALSE, rows |-> <<>>]

Tag(chapter, month_year) == [chapter |-> chapter, month_year |-> month_year]

\* Model.objects.bulk_create(objs, ignore_conflicts=True) on Referral:
\* date_given is auto_now_add, unique_together is (giver, receiver, date_given)
RECURSIVE BulkCreateReferrals(_, _, _, _)
BulkCreateReferrals(db, objs, today, tag) ==
    IF objs = <<>> THEN db
    ELSE LET o == objs[1]
             conflict == \E i \in DOMAIN db.referrals :
                            /\ db.referrals[i].giver.id = o.giver.id
                            /\ db.referrals[i].receiver.id = o.receiver.id
                            /\ db.referrals[i].date_given = today
             rec == [id |-> db.seq + 1, giver |-> o.giver, receiver |-> o.receiver,
                     date_given |-> today, ingested_for |-> tag]
         IN BulkCreateReferrals(
                IF conflict THEN db
                ELSE [db EXCEPT !.referrals = Append(@, rec), !.seq = @ + 1],
                Tail(objs), today, tag)

\* bulk_create on OneToOne: no uniqueness rule
RECURSIVE BulkCreateOneToOnes(_, _, _, _)
BulkCreateOneToOnes(db, objs, today, tag) ==
    IF objs = <<>> THEN db
    ELSE LET o == objs[1]
             rec == [id |-> db.seq + 1, member1 |-> o.member1, member2 |-> o.member2,
                     meeting_date |-> today, ingested_for |-> tag]
         IN BulkCreateOneToOnes([db EXCEPT !.one_to_ones = Append(@, rec), !.seq = @ + 1],
                                Tail(objs), today, tag)

\* bulk_create on TYFCB: no uniqueness rule
RECURSIVE BulkCreateTyfcbs(_, _, _, _)
BulkCreateTyfcbs(db, objs, today, tag) ==
    IF objs = <<>> THEN db
    ELSE LET o == objs[1]
             rec == [id |-> db.seq + 1, receiver |-> o.receiver, giver |-> o.giver,
                     amount |-> o.amount, within_chapter |-> o.within_chapter,
                     date_closed |-> today, ingested_for |-> tag]
         IN BulkCreateTyfcbs([db EXCEPT !.tyfcbs = Append(@, rec), !.seq = @ + 1],
                             Tail(objs), today, tag)

\* the created counts _process_dataframe reports
CreatedCounts(batch) ==
    [referrals_created |-> Len(batch.referrals_to_create),
     one_to_ones_created |-> Len(batch.one_to_ones_to_create),
     tyfcbs_created |-> Len(batch.tyfcbs_to_create)]

\* _process_dataframe: the store after the bulk inserts, and the results
process_dataframe(db, df, members_lookup, today, tag) ==
    LET Insert(batch) ==
            [db |-> BulkCreateTyfcbs(
                      BulkCreateOneToOnes(
                        BulkCreateReferrals(db, batch.referrals_to_create, today, tag),
                        batch.one_to_ones_to_create, today, tag),
                      batch.tyfcbs_to_create, today, tag),
             results |-> [success |-> TRUE, total_processed |-> batch.total_processed,
                          warnings |-> batch.warnings] @@ CreatedCounts(batch)]
    IN Insert(PrepareObjects(df, members_lookup))

\* a variant of _read_excel_file without its column validation
read_excel_file_unvalidated(file) ==
    IF ~file.parse_ok
    THEN [ok |-> FALSE, df |-> <<>>, error |-> "Failed to read Excel file: parse error"]
    ELSE IF file.rows = <<>>
    THEN [ok |-> FALSE, df |-> <<>>, error |-> "Excel file is empty"]
    ELSE [ok |-> TRUE, df |-> file.rows, error |-> ""]

\* _read_excel_file: the table (ok is FALSE for None) and the error appended
read_excel_file(file) ==
    IF ~file.parse_ok
    THEN [ok |-> FALSE, df |-> <<>>, error |-> "Failed to read Excel file: parse error"]
    ELSE IF file.rows = <<>>
    THEN [ok |-> FALSE, df |-> <<>>, error |-> "Excel file is empty"]
    ELSE IF Len(file.rows[1]) < 3
    THEN [ok |-> FALSE, df |-> <<>>, error |-> "Excel file must have at least 3 columns"]
    ELSE [ok |-> TRUE, df |-> file.rows, error |-> ""]

\* _create_error_result
create_error_result(error_message) ==
    [success |-> FALSE, error |-> error_message, referrals_created |-> 0,
     one_to_ones_created |-> 0, tyfcbs_created |-> 0, total_processed |-> 0,
     errors |-> <<error_message>>, warnings |-> <<>>,
     members_created |-> 0, members_updated |-> 0]

\* MemberService.get_or_create_member on one row of the member names file
MemberRowStep(acc, chapter, row) ==
    IF row.first_name = None \/ row.last_name = None THEN acc
    ELSE LET GetOrCreate(first_name, last_name, normalized_name) ==
                 IF first_name = <<>> \/ last_name = <<>> THEN acc
                 ELSE IF \E m \in acc.db.members :
                            m.chapter = chapter /\ m.normalized_name = normalized_name
                 THEN [acc EXCEPT !.updated = @ + 1]
                 ELSE [acc EXCEPT
                         !.created = @ + 1,
                         !.db.seq = @ + 1,
                         !.db.members = @ \cup
                             {[id |-> acc.db.seq + 1, chapter |-> chapter,
                               first_name |-> first_name, last_name |-> last_name,
                               normalized_name |-> normalized_name, is_active |-> TRUE]}]
             Names(first_name, last_name) ==
                 GetOrCreate(first_name, last_name,
                             normalize_name(first_name \o <<" ">> \o last_name))
         IN Names(Strip(row.first_name), Strip(row.last_name))

RECURSIVE MemberRowLoop(_, _, _)
MemberRowLoop(acc, chapter, rows) ==
    IF rows = <<>> THEN acc
    ELSE MemberRowLoop(MemberRowStep(acc, chapter, rows[1]), chapter, Tail(rows))

\* _process_member_names_file (and the same loop inlined in
\* process_monthly_report); raised is TRUE when _parse_xml_excel raises
process_member_names_file(db, chapter, member_names_file) ==
    IF member_names_file = NoFile
    THEN [raised |-> FALSE, db |-> db, created |-> 0, updated |-> 0]
    ELSE IF ~member_names_file.parse_ok
    THEN [raised |-> TRUE, db |-> db, created |-> 0, updated |-> 0]
    ELSE MemberRowLoop([raised |-> FALSE, db |-> db, created |-> 0, updated |-> 0],
                       chapter, member_names_file.rows)

OfChapter(records, chapter, field) ==
    SelectSeq(records, LAMBDA r : r[field].chapter = chapter)

\* the matrices _generate_and_cache_matrices computes for a chapter from the
\* records it is given
Snapshot(members, referrals, one_to_ones) ==
    LET names == [i \in DOMAIN members |-> full_name(members[i])]
        Generated(generator) ==
            [referral_matrix_data |->
                 [cached |-> TRUE, members |-> names,
                  matrix |-> generate_referral_matrix(generator, referrals).values],
             oto_matrix_data |->
                 [cached |-> TRUE, members |-> names,
                  matrix |-> generate_one_to_one_matrix(generator, one_to_ones).values],
             combination_matrix_data |->
                 [cached |-> TRUE, members |-> names,
                  matrix |-> generate_combination_matrix(generator, referrals,
                                                         one_to_ones).values]]
    IN Generated(MatrixGenerator(members))

RECURSIVE SumAmounts(_)
SumAmounts(ts) == IF ts = <<>> THEN 0 ELSE ts[1].amount + SumAmounts(Tail(ts))

\* tyfcb_inside_data / tyfcb_outside_data
TyfcbData(members, ts) ==
    [total_amount |-> SumAmounts(ts), count |-> Len(ts),
     by_member |-> [i \in DOMAIN members |->
                       SumAmounts(SelectSeq(ts, LAMBDA t : t.receiver.id = members[i].id))]]

NoTyfcbData == [total_amount |-> 0, count |-> 0, by_member |-> <<>>]

\* _generate_and_cache_matrices without its early return
regenerate_matrices(db, monthly_report, chapter) ==
    LET Store(members, tyfcbs, snap) ==
            [monthly_report EXCEPT
               !.referral_matrix_data = snap.referral_matrix_data,
               !.oto_matrix_data = snap.oto_matrix_data,
               !.combination_matrix_data = snap.combination_matrix_data,
               !.tyfcb_inside_data =
                   TyfcbData(members, SelectSeq(tyfcbs, LAMBDA t : t.within_chapter)),
               !.tyfcb_outside_data =
                   TyfcbData(members, SelectSeq(tyfcbs, LAMBDA t : ~t.within_chapter))]
        Data(members, referrals, one_to_ones, tyfcbs) ==
            Store(members, tyfcbs, Snapshot(members, referrals, one_to_ones))
    IN Data(ActiveMembers(db.members, chapter),
            OfChapter(db.referrals, chapter, "giver"),
            OfChapter(db.one_to_ones, chapter, "member1"),
            OfChapter(db.tyfcbs, chapter, "receiver"))

\* _generate_and_cache_matrices: the report as saved
generate_and_cache_matrices(db, monthly_report, chapter) ==
    IF /\ monthly_report.referral_matrix_data.cached
       /\ monthly_report.oto_matrix_data.cached
       /\ monthly_report.combination_matrix_data.cached
    THEN monthly_report
    ELSE regenerate_matrices(db, monthly_report, chapter)

\* MonthlyReport.objects.create(...) / the row get_or_create inserts
NewReport(id, chapter, month_year, slip_audit_file) ==
    [id |-> id, chapter |-> chapter, month_year |-> month_year,
     slip_audit_file |-> slip_audit_file,
     referral_matrix_data |-> EmptyDict, oto_matrix_data |-> EmptyDict,
     combination_matrix_data |-> EmptyDict,
     tyfcb_inside_data |-> NoTyfcbData, tyfcb_outside_data |-> NoTyfcbData,
     processed_at |-> 0]

ReportsOf(db, chapter, month_year) ==
    {r \in db.reports : r.chapter = chapter /\ r.month_year = month_year}

\* monthly_report.save()
SaveReport(db, monthly_report) ==
    [db EXCEPT !.reports = {r \in @ : r.id # monthly_report.id} \cup {monthly_report}]

\* what an entry point leaves and returns
Outcome(db, result) == [db |-> db, result |-> result]

\* the success result of process_monthly_report / process_monthly_reports_batch
SuccessResult(counts, mem, warnings) ==
    [success |-> TRUE, error |-> "", referrals_created |-> counts.referrals_created,
     one_to_ones_created |-> counts.one_to_ones_created,
     tyfcbs_created |-> counts.tyfcbs_created,
     total_processed |-> counts.total_processed,
     errors |-> <<>>, warnings |-> warnings,
     members_created |-> mem.created, members_updated |-> mem.updated]

\* ExcelProcessorService(chapter).process_excel_file(file_path)
process_excel_file(db, chapter, file, today) ==
    LET Done(done) ==
            Outcome(done.db,
                    SuccessResult(done.results, [created |-> 0, updated |-> 0],
                                  done.results.warnings))
        Read(read) ==
            IF ~read.ok
            THEN Outcome(db, create_error_result("Failed to read Excel file"))
            ELSE Done(process_dataframe(db, read.df,
                                        get_members_lookup(db.members, chapter),
                                        today, Tag(chapter, "")))
    IN Read(read_excel_file(file))

\* ExcelProcessorService(chapter).process_monthly_report(slip_audit_file,
\* member_names_file, month_year)
process_monthly_report(db, chapter, slip_audit_file, member_names_file, month_year, today) ==
    LET existing == ReportsOf(db, chapter, month_year)
        created == existing = {}
        \* get_or_create
        monthly_report ==
            IF created
            THEN NewReport(db.seq + 1, chapter, month_year, <<slip_audit_file.name>>)
            ELSE [(CHOOSE r \in existing : TRUE) EXCEPT
                     !.slip_audit_file = <<slip_audit_file.name>>]
        db1 == IF created
               THEN [db EXCEPT !.reports = @ \cup {monthly_report}, !.seq = @ + 1]
               ELSE db
        \* monthly_report.save(), then _generate_and_cache_matrices
        Cache(saved, report) ==
            SaveReport(saved, generate_and_cache_matrices(saved, report, chapter))
        Done(mem, done) ==
            Outcome(Cache(SaveReport(done.db, [monthly_report EXCEPT !.processed_at = today]),
                          [monthly_report EXCEPT !.processed_at = today]),
                    SuccessResult(done.results, mem, done.results.warnings))
        Read(mem, read) ==
            IF mem.raised
            \* the exception leaves the atomic block: rollback
            THEN Outcome(db, create_error_result("Processing failed: member names file"))
            ELSE IF ~read.ok
            \* return inside the atomic block: the block exits normally and commits
            THEN Outcome(mem.db, create_error_result("Failed to read Excel file"))
            ELSE Done(mem, process_dataframe(mem.db, read.df,
                                             get_members_lookup(mem.db.members, chapter),
                                             today, Tag(chapter, month_year)))
    IN Read(process_member_names_file(db1, chapter, member_names_file),
            read_excel_file(slip_audit_file))

\* _process_single_slip_file
process_single_slip_file(db, chapter, slip_audit_file, month_year, today) ==
    LET Read(read) ==
            IF ~read.ok
            THEN [db |-> db,
                  results |-> [success |-> FALSE, referrals_created |-> 0,
                               one_to_ones_created |-> 0, tyfcbs_created |-> 0,
                               total_processed |-> 0, warnings |-> <<>>]]
            ELSE process_dataframe(db, read.df, get_members_lookup(db.members, chapter),
                                   today, Tag(chapter, month_year))
    IN Read(read_excel_file(slip_audit_file))

\* the loop of process_monthly_reports_batch over the slip files; failed is
\* TRUE when a file's result is not a success and the loop raises
RECURSIVE SlipFileLoop(_, _, _, _, _)
SlipFileLoop(acc, chapter, slip_audit_files, month_year, today) ==
    IF slip_audit_files = <<>> \/ acc.failed THEN acc
    ELSE LET Accumulate(one) ==
                 IF ~one.results.success
                 THEN [acc EXCEPT !.failed = TRUE]
                 ELSE [failed |-> FALSE, db |-> one.db,
                       referrals_created |->
                           acc.referrals_created + one.results.referrals_created,
                       one_to_ones_created |->
                           acc.one_to_ones_created + one.results.one_to_ones_created,
                       tyfcbs_created |-> acc.tyfcbs_created + one.results.tyfcbs_created,
                       total_processed |-> acc.total_processed + one.results.total_processed,
                       warnings |-> acc.warnings \o one.results.warnings]
         IN SlipFileLoop(
              Accumulate(process_single_slip_file(acc.db, chapter, slip_audit_files[1],
                                                  month_year, today)),
              chapter, Tail(slip_audit_files), month_year, today)

\* the deletes of process_monthly_reports_batch when the report exists
ClearExisting(db, chapter, existing) ==
    [db EXCEPT
       !.referrals = SelectSeq(@, LAMBDA r : r.giver.chapter # chapter),
       !.one_to_ones = SelectSeq(@, LAMBDA r : r.member1.chapter # chapter),
       !.tyfcbs = SelectSeq(@, LAMBDA r : r.receiver.chapter # chapter),
       !.reports = @ \ existing]

RECURSIVE JoinNames(_)
JoinNames(files) ==
    IF files = <<>> THEN <<>> ELSE <<files[1].name>> \o JoinNames(Tail(files))

\* ExcelProcessorService(chapter).process_monthly_reports_batch(slip_audit_files,
\* member_names_file, month_year)
process_monthly_reports_batch(db, chapter, slip_audit_files, member_names_file, month_year, today) ==
    LET existing == ReportsOf(db, chapter, month_year)
        db0 == IF existing # {} THEN ClearExisting(db, chapter, existing) ELSE db
        monthly_report == NewReport(db0.seq + 1, chapter, month_year,
                                    JoinNames(slip_audit_files))
        db1 == [db0 EXCEPT !.reports = @ \cup {monthly_report}, !.seq = @ + 1]
        \* monthly_report.save(), then _generate_and_cache_matrices
        Cache(saved, report) ==
            SaveReport(saved, generate_and_cache_matrices(saved, report, chapter))
        Done(mem, files) ==
            IF files.failed
            THEN Outcome(db, create_error_result("Processing failed: Failed to process file"))
            ELSE Outcome(Cache(SaveReport(files.db,
                                          [monthly_report EXCEPT !.processed_at = today]),
                               [monthly_report EXCEPT !.processed_at = today]),
                         SuccessResult(files, mem, files.warnings))
        Members(mem) ==
            IF mem.raised
            THEN Outcome(db, create_error_result("Processing failed: member names file"))
            ELSE Done(mem,
                      SlipFileLoop([failed |-> FALSE, db |-> mem.db, referrals_created |-> 0,
                                    one_to_ones_created |-> 0, tyfcbs_created |-> 0,
                                    total_processed |-> 0, warnings |-> <<>>],
                                   chapter, slip_audit_files, month_year, today))
    IN Members(process_member_names_file(db1, chapter, member_names_file))

\* MonthlyReport.delete() from the admin: the report row only
delete_monthly_report(db, report_id) ==
    [db EXCEPT !.reports = {r \in @ : r.id # report_id}]

(***************************************************************************)
(* Runs inside transaction.atomic().  A run's statements see the committed *)
(* rows without the rows the run deleted, and the rows the run inserted;   *)
(* its changes reach the store when the block is left without an           *)
(* exception and are dropped otherwise.  Ids come from sequences, which no *)
(* rollback takes back.                                                    *)
(***************************************************************************)
Tables == {"referrals", "one_to_ones", "tyfcbs"}

Ids(rows) == {rows[k].id : k \in DOMAIN rows}

ReportIds(reports) == {r.id : r \in reports}

NoChanges ==
    [deleted |-> {}, referrals |-> <<>>, one_to_ones |-> <<>>, tyfcbs |-> <<>>,
     reports |-> {}, members |-> {}]

\* the database as a statement of the transaction reads it
View(db, changes) ==
    [db EXCEPT
       !.referrals = SelectSeq(@, LAMBDA r : r.id \notin changes.deleted) \o changes.referrals,
       !.one_to_ones = SelectSeq(@, LAMBDA r : r.id \notin changes.deleted)
                           \o changes.one_to_ones,
       !.tyfcbs = SelectSeq(@, LAMBDA r : r.id \notin changes.deleted) \o changes.tyfcbs,
       !.reports = {r \in @ : r.id \notin changes.deleted} \cup changes.reports,
       !.members = {m \in @ : m.id \notin ReportIds(changes.members)}
                       \cup changes.members]

\* the changes of a transaction whose statements have turned its view of db
\* into result
Changes(db, result) ==
    [deleted |-> (Ids(db.referrals) \ Ids(result.referrals))
                   \cup (Ids(db.one_to_ones) \ Ids(result.one_to_ones))
                   \cup (Ids(db.tyfcbs) \ Ids(result.tyfcbs))
                   \cup (ReportIds(db.reports) \ ReportIds(result.reports)),
     referrals |-> SelectSeq(result.referrals, LAMBDA r : r.id \notin Ids(db.referrals)),
     one_to_ones |-> SelectSeq(result.one_to_ones,
                               LAMBDA r : r.id \notin Ids(db.one_to_ones)),
     tyfcbs |-> SelectSeq(result.tyfcbs, LAMBDA r : r.id \notin Ids(db.tyfcbs)),
     reports |-> {r \in result.reports : r \notin db.reports},
     members |-> {m \in result.members : m \notin db.members}]

\* a variant of the constraint below that never finds a conflict
unique_together_unenforced(reports, deleted, chapter, month_year) == FALSE

\* MonthlyReport.Meta.unique_together = ['chapter', 'month_year']: an insert
\* of (chapter, month_year) conflicts with a committed report the
\* transaction has not deleted
unique_together(reports, deleted, chapter, month_year) ==
    \E r \in reports :
        r.chapter = chapter /\ r.month_year = month_year /\ r.id \notin deleted

\* the rows the deletes of process_monthly_reports_batch name
ClearedIds(db, chapter, existing) ==
    Changes(db, ClearExisting(db, chapter, existing)).deleted

\* the accumulators of the loop over the slip files
NoFilesYet(db) ==
    [failed |-> FALSE, db |-> db, referrals_created |-> 0, one_to_ones_created |-> 0,
     tyfcbs_created |-> 0, total_processed |-> 0, warnings |-> <<>>]

\* monthly_report.save() and _generate_and_cache_matrices at the end of
\* process_monthly_reports_batch
SaveAndCache(db, monthly_report, chapter) ==
    LET Cache(saved) ==
            SaveReport(saved, generate_and_cache_matrices(saved, monthly_report, chapter))
    IN Cache(SaveReport(db, monthly_report))

(***************************************************************************)
(* ComparisonService.  A snapshot is the dictionary a report caches for a  *)
(* matrix: its members (names) and its matrix (rows); None and {} are the  *)
(* missing and the empty snapshot.  member_changes is a dict: a sequence   *)
(* of (key, value) items in insertion order.  average_change is kept in    *)
(* hundredths and improvement_rate in tenths, as round(.., 2) and          *)
(* round(.., 1) leave them.                                                *)
(***************************************************************************)
top_count == 5

\* a snapshot that is None
NoneData == [cached |-> FALSE, none |-> TRUE]

\* a variant of `not data` that lets the empty dict through
FalsyNoneOnly(data) ==
    data = NoneData

\* `not data`
Falsy(data) ==
    data = NoneData \/ ~data.cached

RECURSIVE PySum(_)
PySum(row) == IF row = <<>> THEN 0 ELSE row[1] + PySum(Tail(row))

\* sum(1 for val in row if val > 0)
CountPositive(row) == Cardinality({j \in DOMAIN row : row[j] > 0})

\* sum(1 for val in row if val == v)
CountEqual(row, v) == Cardinality({j \in DOMAIN row : row[j] = v})

\* round(num / den, digits) in units of 10^-digits (scale is 10^digits);
\* a tie goes to the even neighbour
PyRound(num, den, scale) ==
    LET Nearest(twice, q) ==
            IF twice % (2 * den) = 0 /\ q % 2 = 1 THEN q - 1 ELSE q
        Halved(twice) == Nearest(twice, twice \div (2 * den))
    IN Halved(2 * scale * num + den)

\* next(idx for idx, name in enumerate(previous_members) if
\* Member.normalize_name(name) == normalized_name), 0 for StopIteration;
\* positions count from 1
prev_index_of(previous_members, normalized_name) ==
    LET matches == {idx \in DOMAIN previous_members :
                       normalize_name(previous_members[idx]) = normalized_name}
    IN IF matches = {} THEN 0
       ELSE CHOOSE idx \in matches : \A other \in matches : idx <= other

\* member_changes[key] = value
ItemSet(items, key, value) ==
    IF \E k \in DOMAIN items : items[k].key = key
    THEN [k \in DOMAIN items |->
             IF items[k].key = key THEN [key |-> key, value |-> value] ELSE items[k]]
    ELSE Append(items, [key |-> key, value |-> value])

\* a variant that takes an unchanged total for an improvement
StatusOfNeverFlat(change) ==
    IF change >= 0 THEN [direction |-> "up", status |-> "improved"]
    ELSE [direction |-> "down", status |-> "declined"]

\* direction and status of a change; the arrows are written as words
StatusOf(change) ==
    IF change > 0 THEN [direction |-> "up", status |-> "improved"]
    ELSE IF change < 0 THEN [direction |-> "down", status |-> "declined"]
    ELSE [direction |-> "flat", status |-> "no_change"]

\* a variant that reads the previous row at the member's own position
TotalsEntryByPosition(current_matrix, previous_matrix, i, prev_index) ==
    LET Entry(current_total, previous_total, current_unique, previous_unique) ==
            [current_total |-> current_total, previous_total |-> previous_total,
             change |-> current_total - previous_total,
             current_unique |-> current_unique, previous_unique |-> previous_unique,
             unique_change |-> current_unique - previous_unique,
             is_new_member |-> prev_index = 0]
                @@ StatusOf(current_total - previous_total)
        has_prev == i <= Len(previous_matrix)
    IN Entry(IF i <= Len(current_matrix) THEN PySum(current_matrix[i]) ELSE 0,
             IF has_prev THEN PySum(previous_matrix[i]) ELSE 0,
             IF i <= Len(current_matrix) THEN CountPositive(current_matrix[i]) ELSE 0,
             IF has_prev THEN CountPositive(previous_matrix[i]) ELSE 0)

\* the entry compare_referral_matrices / compare_oto_matrices store for the
\* member at position i of the current list
TotalsEntry(current_matrix, previous_matrix, i, prev_index) ==
    LET Entry(current_total, previous_total, current_unique, previous_unique) ==
            [current_total |-> current_total, previous_total |-> previous_total,
             change |-> current_total - previous_total,
             current_unique |-> current_unique, previous_unique |-> previous_unique,
             unique_change |-> current_unique - previous_unique,
             is_new_member |-> prev_index = 0]
                @@ StatusOf(current_total - previous_total)
        has_prev == prev_index # 0 /\ prev_index <= Len(previous_matrix)
    IN Entry(IF i <= Len(current_matrix) THEN PySum(current_matrix[i]) ELSE 0,
             IF has_prev THEN PySum(previous_matrix[prev_index]) ELSE 0,
             IF i <= Len(current_matrix) THEN CountPositive(current_matrix[i]) ELSE 0,
             IF has_prev THEN CountPositive(previous_matrix[prev_index]) ELSE 0)

RECURSIVE TotalsLoop(_, _, _, _)
TotalsLoop(member_changes, current_data, previous_data, i) ==
    IF i > Len(current_data.members) THEN member_changes
    ELSE TotalsLoop(
             ItemSet(member_changes, current_data.members[i],
                     TotalsEntry(current_data.matrix, previous_data.matrix, i,
                                 prev_index_of(previous_data.members,
                                               normalize_name(current_data.members[i])))),
             current_data, previous_data, i + 1)

\* sorted(items, key=lambda x: x[1][field], reverse=True): stable, the
\* largest first
RECURSIVE SortedDescending(_, _)
SortedDescending(items, field) ==
    IF items = <<>> THEN <<>>
    ELSE LET Place(rest, x) ==
                 SelectSeq(rest, LAMBDA y : y.value[field] >= x.value[field])
                     \o <<x>>
                     \o SelectSeq(rest, LAMBDA y : y.value[field] < x.value[field])
         IN Place(SortedDescending(SubSeq(items, 1, Len(items) - 1), field),
                  items[Len(items)])

\* sorted(items, key=lambda x: x[1][field]): stable, the smallest first
RECURSIVE SortedAscending(_, _)
SortedAscending(items, field) ==
    IF items = <<>> THEN <<>>
    ELSE LET Place(rest, x) ==
                 SelectSeq(rest, LAMBDA y : y.value[field] <= x.value[field])
                     \o <<x>>
                     \o SelectSeq(rest, LAMBDA y : y.value[field] > x.value[field])
         IN Place(SortedAscending(SubSeq(items, 1, Len(items) - 1), field),
                  items[Len(items)])

\* a variant that keeps the whole list
HeadAll(items) == items

\* items[:5]
Head5(items) == SubSeq(items, 1, IF Len(items) < top_count THEN Len(items) ELSE top_count)

CountStatus(member_changes, status) ==
    Cardinality({k \in DOMAIN member_changes : member_changes[k].value.status = status})

\* sum(data[field] for data in items)
SumOver(items, field) == PySum([k \in DOMAIN items |-> items[k].value[field]])

\* a variant of _calculate_summary's counts that takes every change for an
\* improvement
SummaryCountsAllImproved(member_changes) ==
    LET Rate(total_members, improved) ==
            [total_members |-> total_members,
             improved |-> improved,
             declined |-> CountStatus(member_changes, "declined"),
             no_change |-> CountStatus(member_changes, "no_change"),
             new_members |-> Cardinality({k \in DOMAIN member_changes :
                                            member_changes[k].value.is_new_member}),
             improvement_rate |-> IF total_members > 0
                                  THEN PyRound(improved * 100, total_members, 10)
                                  ELSE 0]
    IN Rate(Len(member_changes),
            Cardinality({k \in DOMAIN member_changes :
                           member_changes[k].value.status # "no_change"}))

\* the counts every summary starts with
SummaryCounts(member_changes) ==
    LET Rate(total_members, improved) ==
            [total_members |-> total_members,
             improved |-> improved,
             declined |-> CountStatus(member_changes, "declined"),
             no_change |-> CountStatus(member_changes, "no_change"),
             new_members |-> Cardinality({k \in DOMAIN member_changes :
                                            member_changes[k].value.is_new_member}),
             improvement_rate |-> IF total_members > 0
                                  THEN PyRound(improved * 100, total_members, 10)
                                  ELSE 0]
    IN Rate(Len(member_changes), CountStatus(member_changes, "improved"))

\* [item for item in items if item[1][field] > 0]
KeepPositive(items, field) ==
    SelectSeq(items, LAMBDA x : x.value[field] > 0)

\* [item for item in items if item[1][field] < 0]
KeepNegative(items, field) ==
    SelectSeq(items, LAMBDA x : x.value[field] < 0)

\* _calculate_summary
calculate_summary(member_changes) ==
    LET Top(item) == [member |-> item.key, change |-> item.value.change,
                      current |-> item.value.current_total,
                      previous |-> item.value.previous_total]
        TopList(kept) == [k \in DOMAIN kept |-> Top(kept[k])]
        Tops(sorted_by_change) ==
            [top_improvements |->
                 TopList(KeepPositive(Head5(sorted_by_change), "change")),
             top_declines |->
                 TopList(KeepNegative(Head5(SortedAscending(sorted_by_change, "change")),
                                      "change"))]
        Average(existing_members) ==
            [average_change |->
                 IF existing_members # <<>>
                 THEN PyRound(SumOver(existing_members, "change"), Len(existing_members), 100)
                 ELSE 0]
    IN SummaryCounts(member_changes)
         @@ Tops(SortedDescending(member_changes, "change"))
         @@ Average(SelectSeq(member_changes, LAMBDA x : ~x.value.is_new_member))

\* the body compare_referral_matrices and compare_oto_matrices share
ComparisonResult(current_data, previous_data, member_changes, summary) ==
    [members |-> current_data.members, current_matrix |-> current_data.matrix,
     previous_matrix |-> previous_data.matrix, member_changes |-> member_changes,
     summary |-> summary]

MissingMatrixData == [error |-> "Missing matrix data"]

\* compare_referral_matrices
compare_referral_matrices(current_data, previous_data) ==
    IF Falsy(current_data) \/ Falsy(previous_data) THEN MissingMatrixData
    ELSE LET Result(member_changes) ==
                 ComparisonResult(current_data, previous_data, member_changes,
                                  calculate_summary(member_changes))
         IN Result(TotalsLoop(<<>>, current_data, previous_data, 1))

\* compare_oto_matrices
compare_oto_matrices(current_data, previous_data) ==
    IF Falsy(current_data) \/ Falsy(previous_data) THEN MissingMatrixData
    ELSE LET Result(member_changes) ==
                 ComparisonResult(current_data, previous_data, member_changes,
                                  calculate_summary(member_changes))
         IN Result(TotalsLoop(<<>>, current_data, previous_data, 1))

\* the four category counts of a row of a combination matrix
CategoryCounts(row) ==
    [neither |-> CountEqual(row, 0), oto_only |-> CountEqual(row, 1),
     referral_only |-> CountEqual(row, 2), both |-> CountEqual(row, 3)]

\* the entry compare_combination_matrices stores for the member at position i
CombinationEntry(current_matrix, previous_matrix, i, prev_index) ==
    LET Scored(current_counts, previous_counts, changes) ==
            [current_counts |-> current_counts, previous_counts |-> previous_counts,
             changes |-> changes,
             improvement_score |-> changes.both - changes.neither,
             is_new_member |-> prev_index = 0]
                @@ StatusOf(changes.both - changes.neither)
        Entry(current_counts, previous_counts) ==
            Scored(current_counts, previous_counts,
                   [c \in {"neither", "oto_only", "referral_only", "both"} |->
                       current_counts[c] - previous_counts[c]])
    IN Entry(CategoryCounts(IF i <= Len(current_matrix) THEN current_matrix[i] ELSE <<>>),
             IF prev_index # 0 /\ prev_index <= Len(previous_matrix)
             THEN CategoryCounts(previous_matrix[prev_index])
             ELSE CategoryCounts(<<>>))

RECURSIVE CombinationLoop(_, _, _, _)
CombinationLoop(member_changes, current_data, previous_data, i) ==
    IF i > Len(current_data.members) THEN member_changes
    ELSE CombinationLoop(
             ItemSet(member_changes, current_data.members[i],
                     CombinationEntry(current_data.matrix, previous_data.matrix, i,
                                      prev_index_of(previous_data.members,
                                                    normalize_name(current_data.members[i])))),
             current_data, previous_data, i + 1)

\* _calculate_combination_summary
calculate_combination_summary(member_changes) ==
    LET Top(item) == [member |-> item.key,
                      improvement_score |-> item.value.improvement_score,
                      both_change |-> item.value.changes.both,
                      neither_change |-> item.value.changes.neither]
        TopList(kept) == [k \in DOMAIN kept |-> Top(kept[k])]
        Tops(sorted_by_score) ==
            [top_improvements |->
                 TopList(KeepPositive(Head5(sorted_by_score), "improvement_score")),
             top_declines |->
                 TopList(KeepNegative(Head5(SortedAscending(sorted_by_score,
                                                            "improvement_score")),
                                      "improvement_score"))]
        Average(existing_members) ==
            [average_improvement_score |->
                 IF existing_members # <<>>
                 THEN PyRound(SumOver(existing_members, "improvement_score"),
                              Len(existing_members), 100)
                 ELSE 0]
    IN SummaryCounts(member_changes)
         @@ Tops(SortedDescending(member_changes, "improvement_score"))
         @@ Average(SelectSeq(member_changes, LAMBDA x : ~x.value.is_new_member))

\* compare_combination_matrices
compare_combination_matrices(current_data, previous_data) ==
    IF Falsy(current_data) \/ Falsy(previous_data) THEN MissingMatrixData
    ELSE LET Result(member_changes) ==
                 ComparisonResult(current_data, previous_data, member_changes,
                                  calculate_combination_summary(member_changes))
         IN Result(CombinationLoop(<<>>, current_data, previous_data, 1))

\* all_comparisons.get(kind, {}).get('summary', {}).get(field, default)
SummaryGet(comparison, field, default) ==
    IF "summary" \in DOMAIN comparison /\ field \in DOMAIN comparison.summary
    THEN comparison.summary[field]
    ELSE default

\* _determine_most_improved_metric
determine_most_improved_metric(ref_rate, oto_rate) ==
    IF ref_rate > oto_rate THEN "referrals"
    ELSE IF oto_rate > ref_rate THEN "one_to_ones"
    ELSE "equal"

\* get_comparison_insights
get_comparison_insights(referral, oto, combination) ==
    LET Metric(comparison) ==
            [improved |-> SummaryGet(comparison, "improved", 0),
             declined |-> SummaryGet(comparison, "declined", 0),
             average_change |-> SummaryGet(comparison, "average_change", 0),
             improvement_rate |-> SummaryGet(comparison, "improvement_rate", 0),
             top_improvers |->
                 LET tops == SummaryGet(comparison, "top_improvements", <<>>)
                 IN SubSeq(tops, 1, IF Len(tops) < 3 THEN Len(tops) ELSE 3)]
    IN [referrals |-> Metric(referral),
        one_to_ones |-> Metric(oto),
        overall |->
            [total_members |-> SummaryGet(referral, "total_members", 0),
             new_members |-> SummaryGet(referral, "new_members", 0),
             combination_improvement_rate |->
                 SummaryGet(combination, "improvement_rate", 0),
             most_improved_metric |->
                 determine_most_improved_metric(
                     SummaryGet(referral, "improvement_rate", 0),
                     SummaryGet(oto, "improvement_rate", 0))]]

\* no comparison under way
CmpIdle == [stage |-> "idle"]

\* no ingestion run in progress
RunsIdle == <<>>

\* what a call of compare_monthly_reports ends with: a returned report, or
\* an exception that reaches the caller
Raised(exception, message) ==
    [raised |-> TRUE, exception |-> exception, message |-> message]

\* a variant of compare_monthly_reports without the validation of the chapters
compare_monthly_reports_unvalidated(current_report, previous_report) ==
    LET Report(referral_comparison, oto_comparison, combination_comparison) ==
            [raised |-> FALSE,
             current_report |-> [id |-> current_report.id,
                                 month_year |-> current_report.month_year,
                                 processed_at |-> current_report.processed_at],
             previous_report |-> [id |-> previous_report.id,
                                  month_year |-> previous_report.month_year,
                                  processed_at |-> previous_report.processed_at],
             referral_comparison |-> referral_comparison,
             oto_comparison |-> oto_comparison,
             combination_comparison |-> combination_comparison,
             overall_insights |-> get_comparison_insights(referral_comparison,
                                                          oto_comparison,
                                                          combination_comparison)]
    IN Report(compare_referral_matrices(current_report.referral_matrix_data,
                                        previous_report.referral_matrix_data),
              compare_oto_matrices(current_report.oto_matrix_data,
                                   previous_report.oto_matrix_data),
              compare_combination_matrices(current_report.combination_matrix_data,
                                           previous_report.combination_matrix_data))

\* compare_monthly_reports
compare_monthly_reports(current_report, previous_report) ==
    IF current_report.chapter # previous_report.chapter
    THEN Raised("ValueError", "Cannot compare reports from different chapters")
    ELSE LET Report(referral_comparison, oto_comparison, combination_comparison) ==
            [raised |-> FALSE,
             current_report |-> [id |-> current_report.id,
                                 month_year |-> current_report.month_year,
                                 processed_at |-> current_report.processed_at],
             previous_report |-> [id |-> previous_report.id,
                                  month_year |-> previous_report.month_year,
                                  processed_at |-> previous_report.processed_at],
             referral_comparison |-> referral_comparison,
             oto_comparison |-> oto_comparison,
             combination_comparison |-> combination_comparison,
             overall_insights |-> get_comparison_insights(referral_comparison,
                                                          oto_comparison,
                                                          combination_comparison)]
    IN Report(compare_referral_matrices(current_report.referral_matrix_data,
                                        previous_report.referral_matrix_data),
              compare_oto_matrices(current_report.oto_matrix_data,
                                   previous_report.oto_matrix_data),
              compare_combination_matrices(current_report.combination_matrix_data,
                                           previous_report.combination_matrix_data))

(***************************************************************************)
(* Inputs of the matrix runs: a roster drawn, in any order, from the       *)
(* members of one chapter, and a list of referral records between members  *)
(* of that chapter (members outside the roster included).                  *)
(***************************************************************************)
MaxRecords == 2

Str_Al == <<"A","l">>
Str_Bo == <<"B","o">>
Str_Ray == <<"R","a","y">>
Str_Lee == <<"L","e","e">>

Mem(id, chapter, first, last) ==
    [id |-> id, chapter |-> chapter, first_name |-> first, last_name |-> last,
     normalized_name |-> normalize_name(first \o <<" ">> \o last), is_active |-> TRUE]

ChapterOneMembers ==
    { Mem(1, "c1", Str_Bo, Str_Lee), Mem(2, "c1", Str_Al, Str_Ray), Mem(3, "c1", Str_Al, Str_Lee) }

\* the sequences over S without repetition
Arrangements(S) ==
    { q \in SeqsUpTo(S, Cardinality(S)) : \A i, j \in DOMAIN q : i # j => q[i] # q[j] }

ReferralRecords == [giver : ChapterOneMembers, receiver : ChapterOneMembers]

MGInit ==
    \E roster \in Arrangements(ChapterOneMembers),
       referrals \in SeqsUpTo(ReferralRecords, MaxRecords) :
        mg = [members |-> roster, referrals |-> referrals, matrix |-> None,
              stage |-> "input"]

\* MatrixGenerator(members).generate_referral_matrix(referrals)
GenerateReferralMatrix ==
    /\ mg.stage = "input"
    /\ mg' = [mg EXCEPT !.matrix = generate_referral_matrix(MatrixGenerator(mg.members),
                                                            mg.referrals),
                        !.stage = "referral"]
    /\ UNCHANGED <<store, before, returned, clock, calls, nn, cmp, runs>>

NextMatrix == GenerateReferralMatrix


(***************************************************************************)
(* Inputs of the ingestion runs: two chapters with their rosters, slip     *)
(* audit files (three leading rows, then slips) and member names files.    *)
(***************************************************************************)
MaxRuns == 2

MaxDay == 2

Str_Cy == <<"C","y">>
Str_Di == <<"D","i">>
Str_Fox == <<"F","o","x">>
Str_Orr == <<"O","r","r">>

InitialMembers ==
    { Mem(1, "c1", Str_Bo, Str_Lee), Mem(2, "c1", Str_Al, Str_Ray),
      Mem(3, "c2", Str_Cy, Str_Fox), Mem(4, "c2", Str_Di, Str_Orr) }

\* one row of a slip audit table: From, To, Slip Type, Inside/Outside, $ if
\* TYFCB, Detail in the columns of COLUMN_MAPPINGS, the other cells blank
Row(from, to, slip_type, inside_outside, amount, detail) ==
    <<from, to, None, slip_type, None, inside_outside, amount, None, None, detail>>

LeadingRows ==
    << Row(<<"R","u","n","n","i","n","g"," ","U","s","e","r">>, <<"R","u","n"," ","A","t">>, None, None, None, None),
       Row(<<"C","h","a","p","t","e","r">>, <<"c","1">>, None, None, None, None),
       Row(<<"A","l"," ","R","a","y">>, <<"B","o"," ","L","e","e">>, <<"R","e","f","e","r","r","a","l">>, None, None, None) >>

\* two referrals of the same pair under two spellings, and a one-to-one
FileA ==
    [name |-> "a.xls", parse_ok |-> TRUE,
     rows |-> LeadingRows \o
        << Row(<<"A","l"," ","R","a","y">>, <<"B","o"," ","L","e","e">>, <<"R","e","f","e","r","r","a","l">>, None, None, None),
           Row(<<"a","l">>, <<" ","B","O"," "," ","L","E","E"," ">>, <<"r","e","f","e","r","r","a","l"," ","s","l","i","p">>, None, None, None),
           Row(<<"B","o"," ","L","e","e">>, <<"D","r","."," ","A","l"," ","R","a","y"," ","J","r",".">>, <<"O","n","e"," ","t","o"," ","O","n","e">>, None, None, None) >>]

\* rows whose two names resolve to one member, and closed-business rows
FileB ==
    [name |-> "b.xls", parse_ok |-> TRUE,
     rows |-> LeadingRows \o
        << Row(<<"a","l">>, <<"M","r","."," ","A","l"," "," ","R","a","y">>, <<"R","e","f","e","r","r","a","l">>, None, None, None),
           Row(<<"A","l"," ","R","a","y">>, <<"A","L"," ","R","A","Y">>, <<"1","t","o","1">>, None, None, None),
           Row(<<"A","l"," ","R","a","y">>, <<"a","l">>, <<"T","Y","F","C","B">>, <<"I","n","s","i","d","e">>, <<"$","1",",","0","0","0">>, <<"d","e","a","l">>),
           Row(None, <<"B","o"," ","L","e","e">>, <<"T","Y","F","C","B">>, <<"O","u","t","s","i","d","e">>, <<"-","5">>, None),
           Row(<<"Z","e","d"," ","O","r","r">>, <<"B","o"," ","L","e","e">>, <<"C","l","o","s","e","d"," ","B","u","s","i","n","e","s","s">>, <<"O","u","t","s","i","d","e">>, <<"5","0","0">>, None) >>]

\* an unknown name, an unknown slip type, and a member the roster may lack
FileC ==
    [name |-> "c.xls", parse_ok |-> TRUE,
     rows |-> LeadingRows \o
        << Row(<<"Z","e","d"," ","O","r","r">>, <<"B","o"," ","L","e","e">>, <<"R","e","f","e","r","r","a","l">>, None, None, None),
           Row(<<"A","l"," ","R","a","y">>, <<"B","o"," ","L","e","e">>, <<"C","E","U">>, None, None, None),
           Row(<<"A","l"," ","L","e","e">>, <<"B","o"," ","L","e","e">>, <<"O","T","O">>, None, None, None) >>]

\* a one-to-one of the second chapter
FileD ==
    [name |-> "d.xls", parse_ok |-> TRUE,
     rows |-> LeadingRows \o
        << Row(<<"C","y"," ","F","o","x">>, <<"D","i"," ","O","r","r">>, <<"O","n","e"," ","t","o"," ","O","n","e">>, None, None, None) >>]

\* a file neither reader can parse
FileU == [name |-> "u.xls", parse_ok |-> FALSE, rows |-> <<>>]

\* a table without rows
FileE == [name |-> "e.xls", parse_ok |-> TRUE, rows |-> <<>>]

MembersFileGood ==
    [name |-> "members.xls", parse_ok |-> TRUE,
     rows |-> << [first_name |-> <<"A","l">>, last_name |-> <<" ","L","e","e">>],
                 [first_name |-> <<"B","O">>, last_name |-> <<"L","E","E">>],
                 [first_name |-> <<"C","y">>, last_name |-> None] >>]

\* a member names file in which _parse_xml_excel finds no worksheet
MembersFileBad == [name |-> "bad.xls", parse_ok |-> FALSE, rows |-> <<>>]

Req(op, chapter, month_year, slips, member_names_file) ==
    [op |-> op, chapter |-> chapter, month_year |-> month_year, slips |-> slips,
     member_names_file |-> member_names_file]

ExcelRequests ==
    { Req("excel", "c1", "", <<f>>, NoFile) : f \in {FileA, FileB, FileU} }

MonthlyRequests ==
    { Req("monthly", "c1", "2025-07", <<x[1]>>, x[2]) :
        x \in { <<FileA, NoFile>>, <<FileB, NoFile>>, <<FileC, MembersFileGood>>,
                <<FileU, NoFile>>, <<FileE, NoFile>>, <<FileA, MembersFileBad>> } }
    \cup { Req("monthly", "c1", "2025-08", <<f>>, NoFile) : f \in {FileA, FileC} }
    \cup { Req("monthly", "c2", "2025-07", <<FileD>>, NoFile) }

BatchRequests ==
    { Req("batch", "c1", "2025-07", x[1], x[2]) :
        x \in { << <<FileA>>, NoFile >>, << <<FileA, FileB>>, NoFile >>,
                << <<FileA, FileU>>, NoFile >>, << <<FileC>>, MembersFileGood >>,
                << <<FileB>>, MembersFileBad >> } }
    \cup { Req("batch", "c1", "2025-08", <<FileA>>, NoFile) }

EmptyStore ==
    [members |-> InitialMembers, referrals |-> <<>>, one_to_ones |-> <<>>,
     tyfcbs |-> <<>>, reports |-> {}, seq |-> Cardinality(InitialMembers)]

NoResult ==
    [op |-> "none", chapter |-> "", month_year |-> ""] @@ create_error_result("")

Returned(req, result) ==
    [op |-> req.op, chapter |-> req.chapter, month_year |-> req.month_year] @@ result

Init ==
    /\ store = EmptyStore
    /\ before = EmptyStore
    /\ returned = NoResult
    /\ clock = 1
    /\ calls = 0
    /\ nn = NNIdle
    /\ mg = MGIdle
    /\ cmp = CmpIdle
    /\ runs = RunsIdle

Ran(req, out) ==
    /\ store' = out.db
    /\ before' = store
    /\ returned' = Returned(req, out.result)
    /\ calls' = calls + 1
    /\ UNCHANGED <<clock, nn, mg, cmp, runs>>

ProcessExcelFile ==
    /\ calls < MaxRuns
    /\ \E req \in ExcelRequests :
          Ran(req, process_excel_file(store, req.chapter, req.slips[1], clock))

ProcessMonthlyReport ==
    /\ calls < MaxRuns
    /\ \E req \in MonthlyRequests :
          Ran(req, process_monthly_report(store, req.chapter, req.slips[1],
                                          req.member_names_file, req.month_year, clock))

ProcessMonthlyReportsBatch ==
    /\ calls < MaxRuns
    /\ \E req \in BatchRequests :
          Ran(req, process_monthly_reports_batch(store, req.chapter, req.slips,
                                                 req.member_names_file, req.month_year,
                                                 clock))

\* a report is deleted in the admin
DeleteMonthlyReport ==
    /\ \E r \in store.reports :
          /\ store' = delete_monthly_report(store, r.id)
          /\ returned' = Returned(Req("delete", r.chapter, r.month_year, <<>>, NoFile),
                              create_error_result(""))
    /\ before' = store
    /\ UNCHANGED <<clock, calls, nn, mg, cmp, runs>>

\* timezone.now().date() moves on
NewDay ==
    /\ clock < MaxDay
    /\ clock' = clock + 1
    /\ UNCHANGED <<store, before, returned, calls, nn, mg, cmp, runs>>

Next ==
    \/ ProcessExcelFile
    \/ ProcessMonthlyReport
    \/ ProcessMonthlyReportsBatch
    \/ DeleteMonthlyReport
    \/ NewDay

Spec == Init /\ [][Next]_vars

\* the calls of normalize_name and of MatrixGenerator leave the store alone
StoreIdle ==
    /\ store = EmptyStore
    /\ before = EmptyStore
    /\ returned = NoResult
    /\ clock = 1
    /\ calls = 0

InitNorm == NNInit /\ mg = MGIdle /\ cmp = CmpIdle /\ StoreIdle /\ runs = RunsIdle

SpecNorm == InitNorm /\ [][NextNorm]_vars

InitMatrix == MGInit /\ nn = NNIdle /\ cmp = CmpIdle /\ StoreIdle /\ runs = RunsIdle

SpecMatrix == InitMatrix /\ [][NextMatrix]_vars

(***************************************************************************)
(* Inputs of the one-to-one matrix: a roster in any order and a list of    *)
(* meetings between chapter members, a member with themself included.      *)
(***************************************************************************)
MaxMeetings == 2

MeetingRecords == [member1 : ChapterOneMembers, member2 : ChapterOneMembers]

InitOneToOne ==
    /\ \E roster \in Arrangements(ChapterOneMembers),
          one_to_ones \in SeqsUpTo(MeetingRecords, MaxMeetings) :
           mg = [members |-> roster, one_to_ones |-> one_to_ones, matrix |-> None,
                 stage |-> "input"]
    /\ nn = NNIdle
    /\ cmp = CmpIdle
    /\ StoreIdle
    /\ runs = RunsIdle

\* MatrixGenerator(members).generate_one_to_one_matrix(one_to_ones)
GenerateOneToOneMatrix ==
    /\ mg.stage = "input"
    /\ mg' = [mg EXCEPT !.matrix = generate_one_to_one_matrix(MatrixGenerator(mg.members),
                                                              mg.one_to_ones),
                        !.stage = "one_to_one"]
    /\ UNCHANGED <<store, before, returned, clock, calls, nn, cmp, runs>>

NextOneToOne == GenerateOneToOneMatrix

SpecOneToOne == InitOneToOne /\ [][NextOneToOne]_vars

(***************************************************************************)
(* Inputs of the combination matrix: a roster, a list of referrals and a   *)
(* list of meetings, drawn from pairs that meet, refer one way, do both or *)
(* involve one member only.                                                *)
(***************************************************************************)
MaxEach == 2

AlRay == Mem(2, "c1", Str_Al, Str_Ray)
BoLee == Mem(1, "c1", Str_Bo, Str_Lee)
AlLee == Mem(3, "c1", Str_Al, Str_Lee)

CombinationReferrals ==
    { [giver |-> x[1], receiver |-> x[2]] :
        x \in { <<AlRay, BoLee>>, <<BoLee, AlLee>>, <<AlLee, AlLee>>, <<AlLee, AlRay>> } }

CombinationMeetings ==
    { [member1 |-> x[1], member2 |-> x[2]] :
        x \in { <<BoLee, AlRay>>, <<AlLee, AlRay>>, <<AlLee, AlLee>>, <<BoLee, AlLee>> } }

InitCombination ==
    /\ \E roster \in Arrangements(ChapterOneMembers),
          referrals \in SeqsUpTo(CombinationReferrals, MaxEach),
          one_to_ones \in SeqsUpTo(CombinationMeetings, MaxEach) :
           mg = [members |-> roster, referrals |-> referrals,
                 one_to_ones |-> one_to_ones, matrix |-> None, stage |-> "input"]
    /\ nn = NNIdle
    /\ cmp = CmpIdle
    /\ StoreIdle
    /\ runs = RunsIdle

\* MatrixGenerator(members).generate_combination_matrix(referrals, one_to_ones)
GenerateCombinationMatrix ==
    /\ mg.stage = "input"
    /\ mg' = [mg EXCEPT !.matrix = generate_combination_matrix(
                                       MatrixGenerator(mg.members), mg.referrals,
                                       mg.one_to_ones),
                        !.stage = "combination"]
    /\ UNCHANGED <<store, before, returned, clock, calls, nn, cmp, runs>>

NextCombination == GenerateCombinationMatrix

SpecCombination == InitCombination /\ [][NextCombination]_vars

(***************************************************************************)
(* Inputs of a single ingestion call on a chapter with the active roster   *)
(* [Al Ray, Bo Lee]: a worksheet whose first row is the header row and     *)
(* whose other rows become the rows of the table, as _parse_xml_excel and  *)
(* pd.read_excel build it.                                                 *)
(***************************************************************************)
MaxDataRows == 3

SheetHeader == Row(<<"F","r","o","m">>, <<"T","o">>, <<"S","l","i","p"," ","T","y","p","e">>, <<"I","n","s","i","d","e","/","O","u","t","s","i","d","e">>, <<"$"," ","i","f"," ","T","Y","F","C","B">>, <<"D","e","t","a","i","l">>)

\* the rows a slip audit report has between its header and its slips
MetadataRows ==
    << Row(<<"R","u","n","n","i","n","g"," ","U","s","e","r">>, <<"R","u","n"," ","A","t">>, None, None, None, None),
       Row(<<"C","h","a","p","t","e","r">>, <<"c","1">>, None, None, None, None),
       Row(<<"F","r","o","m">>, <<"T","o">>, <<"S","l","i","p"," ","T","y","p","e">>, None, None, None) >>

RowAlToBo == Row(<<"A","l"," ","R","a","y">>, <<"B","o"," ","L","e","e">>, <<"R","e","f","e","r","r","a","l">>, None, None, None)
RowBoToAl == Row(<<"B","o"," ","L","e","e">>, <<"A","l"," ","R","a","y">>, <<"R","e","f","e","r","r","a","l">>, None, None, None)
RowZedToBo == Row(<<"Z","e","d"," ","O","r","r">>, <<"B","o"," ","L","e","e">>, <<"R","e","f","e","r","r","a","l">>, None, None, None)
RowZedToAnn == Row(<<"Z","e","d"," ","O","r","r">>, <<"A","n","n"," ","P","o","e">>, <<"R","e","f","e","r","r","a","l">>, None, None, None)
RowAlMeetsZed == Row(<<"A","l"," ","R","a","y">>, <<"Z","e","d"," ","O","r","r">>, <<"O","n","e"," ","t","o"," ","O","n","e">>, None, None, None)
RowBoMeetsAl == Row(<<"B","o"," ","L","e","e">>, <<"A","l"," ","R","a","y">>, <<"O","n","e"," ","t","o"," ","O","n","e">>, None, None, None)

DataRows == {RowAlToBo, RowBoToAl, RowZedToBo, RowZedToAnn, RowAlMeetsZed, RowBoMeetsAl}

\* the file read from a worksheet: the first row gives the column names, the
\* rows after it are the rows of the table
ReadSheet(layout, leading, data) ==
    [name |-> "s.xls", parse_ok |-> TRUE, rows |-> Tail(leading \o data),
     layout |-> layout, data |-> data]

SheetFiles ==
    { ReadSheet("header", <<SheetHeader>>, data) : data \in SeqsUpTo(DataRows, MaxDataRows) }
    \cup { ReadSheet("metadata", <<SheetHeader>> \o MetadataRows, data) :
             data \in SeqsUpTo(DataRows, MaxDataRows) }

\* a worksheet of two columns
FileN ==
    [name |-> "n.xls", parse_ok |-> TRUE,
     rows |-> << <<<<"A","l"," ","R","a","y">>, <<"B","o"," ","L","e","e">>>>, <<<<"A","l"," ","R","a","y">>, <<"B","o"," ","L","e","e">>>>, <<<<"A","l"," ","R","a","y">>, <<"B","o"," ","L","e","e">>>>,
                 <<<<"A","l"," ","R","a","y">>, <<"B","o"," ","L","e","e">>>> >>,
     layout |-> "narrow", data |-> <<>>]

DegenerateFiles ==
    { FileN, FileU @@ [layout |-> "unparseable", data |-> <<>>] }

SheetRequests ==
    { Req(op, "c1", "2025-07", <<f>>, NoFile) :
        op \in {"excel", "monthly", "batch"}, f \in SheetFiles \cup DegenerateFiles }
    \cup { Req(op, "c1", "2025-07",
               <<ReadSheet("metadata", <<SheetHeader>> \o MetadataRows, <<RowAlToBo>>)>>,
               MembersFileBad) : op \in {"monthly", "batch"} }

InitSheet ==
    /\ store = EmptyStore
    /\ before = EmptyStore
    /\ returned = NoResult
    /\ clock = 1
    /\ calls = 0
    /\ nn = NNIdle
    /\ mg = MGIdle
    /\ cmp = CmpIdle
    /\ runs = RunsIdle

\* the call's files beside its result
SheetRan(req, out) ==
    /\ store' = out.db
    /\ before' = store
    /\ returned' = [file |-> req.slips[1], member_names_file |-> req.member_names_file]
                       @@ Returned(req, out.result)
    /\ calls' = calls + 1
    /\ UNCHANGED <<clock, nn, mg, cmp, runs>>

SheetExcel ==
    /\ calls = 0
    /\ \E req \in SheetRequests :
          /\ req.op = "excel"
          /\ SheetRan(req, process_excel_file(store, req.chapter, req.slips[1], clock))

SheetMonthly ==
    /\ calls = 0
    /\ \E req \in SheetRequests :
          /\ req.op = "monthly"
          /\ SheetRan(req, process_monthly_report(store, req.chapter, req.slips[1],
                                                  req.member_names_file, req.month_year,
                                                  clock))

SheetBatch ==
    /\ calls = 0
    /\ \E req \in SheetRequests :
          /\ req.op = "batch"
          /\ SheetRan(req, process_monthly_reports_batch(store, req.chapter, req.slips,
                                                         req.member_names_file,
                                                         req.month_year, clock))

NextSheet ==
    \/ SheetExcel
    \/ SheetMonthly
    \/ SheetBatch

SpecSheet == InitSheet /\ [][NextSheet]_vars

(***************************************************************************)
(* Inputs of the comparisons: snapshots over the names of three members,   *)
(* one of them under two spellings.  The names of one snapshot normalize   *)
(* to distinct strings, as Member.Meta.unique_together has them; the two   *)
(* snapshots of a comparison may spell and order the same members          *)
(* differently.                                                            *)
(***************************************************************************)
MaxMembers == 2

SnapshotNames ==
    { Str_Al \o <<" ">> \o Str_Ray,
      <<"D","r","."," ">> \o Str_Al \o <<" ">> \o Str_Ray,
      Str_Bo \o <<" ">> \o Str_Lee,
      Str_Cy \o <<" ">> \o Str_Fox }

MemberLists ==
    { q \in SeqsUpTo(SnapshotNames, MaxMembers) :
        \A i, j \in DOMAIN q : i # j => normalize_name(q[i]) # normalize_name(q[j]) }

\* a row without interactions, and a row holding every value up to 3
ZeroRow(n) == [j \in 1..n |-> 0]

BusyRow(n) == [j \in 1..n |-> IF j = n THEN 3 ELSE j % 3]

\* no interactions, interactions of every member, of the first member only
SnapshotMatrices(n) ==
    { [i \in 1..n |-> ZeroRow(n)], [i \in 1..n |-> BusyRow(n)],
      [i \in 1..n |-> IF i = 1 THEN BusyRow(n) ELSE ZeroRow(n)] }

MatrixData(members, matrix) == [cached |-> TRUE, members |-> members, matrix |-> matrix]

Snapshots ==
    UNION { { MatrixData(members, matrix) :
                members \in {q \in MemberLists : Len(q) = n},
                matrix \in SnapshotMatrices(n) } : n \in 0..MaxMembers }

\* a snapshot argument: a stored snapshot, {} or None
MatrixArguments == Snapshots \cup {EmptyDict, NoneData}

\* a report whose three matrices hold the same snapshot
ReportOf(id, chapter, month_year, data) ==
    [NewReport(id, chapter, month_year, <<"s.xls">>) EXCEPT
        !.referral_matrix_data = data, !.oto_matrix_data = data,
        !.combination_matrix_data = data, !.processed_at = 1]

ReportData == {s \in Snapshots : Len(s.members) <= 1} \cup {EmptyDict}

InitCompare ==
    /\ \/ \E current_data \in MatrixArguments, previous_data \in MatrixArguments :
             cmp = [stage |-> "input", call |-> "matrices", current |-> current_data,
                    previous |-> previous_data, result |-> CmpIdle]
       \/ \E current_chapter \in {"c1", "c2"}, previous_chapter \in {"c1", "c2"},
             current_data \in ReportData, previous_data \in ReportData :
             cmp = [stage |-> "input", call |-> "reports",
                    current |-> ReportOf(2, current_chapter, "2025-08", current_data),
                    previous |-> ReportOf(1, previous_chapter, "2025-07", previous_data),
                    result |-> CmpIdle]
    /\ nn = NNIdle
    /\ mg = MGIdle
    /\ StoreIdle
    /\ runs = RunsIdle

\* the three compare_*_matrices functions on one pair of snapshots
CompareMatrices ==
    /\ cmp.stage = "input"
    /\ cmp.call = "matrices"
    /\ cmp' = [cmp EXCEPT
                 !.stage = "compared",
                 !.result = [referral |-> compare_referral_matrices(cmp.current, cmp.previous),
                             oto |-> compare_oto_matrices(cmp.current, cmp.previous),
                             combination |->
                                 compare_combination_matrices(cmp.current, cmp.previous)]]
    /\ UNCHANGED <<store, before, returned, clock, calls, nn, mg, runs>>

\* ComparisonService.compare_monthly_reports(current_report, previous_report)
CompareMonthlyReports ==
    /\ cmp.stage = "input"
    /\ cmp.call = "reports"
    /\ cmp' = [cmp EXCEPT !.stage = "compared",
                          !.result = compare_monthly_reports(cmp.current, cmp.previous)]
    /\ UNCHANGED <<store, before, returned, clock, calls, nn, mg, runs>>

NextCompare ==
    \/ CompareMatrices
    \/ CompareMonthlyReports

SpecCompare == InitCompare /\ [][NextCompare]_vars

(***************************************************************************)
(* Inputs of the summaries: two snapshots of one roster of up to           *)
(* top_count + 1 members; in the current one member i has given any        *)
(* number of referrals up to MaxTotal, in the previous one every member    *)
(* has given none, every member has given MaxTotal, or member i has given  *)
(* i modulo MaxTotal + 1.                                                  *)
(***************************************************************************)
MaxTotal == 2

RosterName(i) == <<UpperCase[i], LowerCase[i]>>

\* a snapshot in which member i has given totals[i], all to the next member
TotalsSnapshot(totals) ==
    MatrixData([i \in DOMAIN totals |-> RosterName(i)],
               [i \in DOMAIN totals |->
                   [j \in DOMAIN totals |->
                       IF j = (i % Len(totals)) + 1 THEN totals[i] ELSE 0]])

PreviousTotals(n) ==
    { [i \in 1..n |-> 0], [i \in 1..n |-> MaxTotal],
      [i \in 1..n |-> i % (MaxTotal + 1)] }

InitSummary ==
    /\ \E n \in 1..(top_count + 1) :
          \E current \in [1..n -> 0..MaxTotal], previous \in PreviousTotals(n) :
             cmp = [stage |-> "input", call |-> "totals",
                    current |-> TotalsSnapshot(current),
                    previous |-> TotalsSnapshot(previous), result |-> CmpIdle]
    /\ nn = NNIdle
    /\ mg = MGIdle
    /\ StoreIdle
    /\ runs = RunsIdle

\* compare_referral_matrices and compare_oto_matrices on one pair of snapshots
CompareTotals ==
    /\ cmp.stage = "input"
    /\ cmp.call = "totals"
    /\ cmp' = [cmp EXCEPT
                 !.stage = "compared",
                 !.result = [referral |-> compare_referral_matrices(cmp.current, cmp.previous),
                             oto |-> compare_oto_matrices(cmp.current, cmp.previous)]]
    /\ UNCHANGED <<store, before, returned, clock, calls, nn, mg, runs>>

NextSummary ==
    \/ CompareTotals

SpecSummary == InitSummary /\ [][NextSummary]_vars

(***************************************************************************)
(* Inputs of the snapshots: the active members of a chapter as the store   *)
(* returns them under Member.Meta.ordering, one of them with a first name  *)
(* of two words, and the chapter's referrals and meetings.                 *)
(***************************************************************************)
MaxGiven == 1

AlLeeFox == Mem(3, "c1", Str_Al \o <<" ">> \o Str_Lee, Str_Fox)

SnapshotMembers == {AlRay, BoLee, AlLeeFox}

GivenRecords ==
    { r \in [giver : SnapshotMembers, receiver : SnapshotMembers] : r.giver # r.receiver }

MetRecords ==
    { r \in [member1 : SnapshotMembers, member2 : SnapshotMembers] : r.member1 # r.member2 }

InitSnapshot ==
    /\ \E S \in SUBSET SnapshotMembers :
          \E referrals \in SeqsUpTo(GivenRecords, MaxGiven),
             one_to_ones \in SeqsUpTo(MetRecords, MaxGiven) :
             mg = [members |-> ActiveMembers(S, "c1"), referrals |-> referrals,
                   one_to_ones |-> one_to_ones, snapshot |-> None, stage |-> "input"]
    /\ nn = NNIdle
    /\ cmp = CmpIdle
    /\ StoreIdle
    /\ runs = RunsIdle

\* the three matrices of _generate_and_cache_matrices
GenerateAndCacheMatrices ==
    /\ mg.stage = "input"
    /\ mg' = [mg EXCEPT !.snapshot = Snapshot(mg.members, mg.referrals, mg.one_to_ones),
                        !.stage = "snapshot"]
    /\ UNCHANGED <<store, before, returned, clock, calls, nn, cmp, runs>>

NextSnapshot ==
    \/ GenerateAndCacheMatrices

SpecSnapshot == InitSnapshot /\ [][NextSnapshot]_vars

(***************************************************************************)
(* Inputs of the re-ingestion: the store left by up to MaxPrior batch runs *)
(* on successive days, for the two periods of the first chapter and for    *)
(* the second chapter, then one more batch run.                            *)
(***************************************************************************)
MaxPrior == 2

PriorRequests ==
    { Req("batch", "c1", "2025-07", <<FileA>>, NoFile),
      Req("batch", "c1", "2025-08", <<FileB>>, NoFile),
      Req("batch", "c2", "2025-07", <<FileD>>, NoFile) }

RerunRequests == BatchRequests \cup PriorRequests

\* the store after the runs of reqs, the i-th on day i
RECURSIVE StoreAfter(_, _, _)
StoreAfter(db, reqs, day) ==
    IF reqs = <<>> THEN db
    ELSE StoreAfter(process_monthly_reports_batch(db, reqs[1].chapter, reqs[1].slips,
                                                  reqs[1].member_names_file,
                                                  reqs[1].month_year, day).db,
                    Tail(reqs), day + 1)

InitBatch ==
    /\ \E reqs \in SeqsUpTo(PriorRequests, MaxPrior) :
          /\ store = StoreAfter(EmptyStore, reqs, 1)
          /\ before = StoreAfter(EmptyStore, reqs, 1)
    /\ returned = NoResult
    /\ clock = MaxPrior + 1
    /\ calls = 0
    /\ nn = NNIdle
    /\ mg = MGIdle
    /\ cmp = CmpIdle
    /\ runs = RunsIdle

\* process_monthly_reports_batch on a store that holds earlier periods
BatchAgain ==
    /\ calls = 0
    /\ \E req \in RerunRequests :
          Ran(req, process_monthly_reports_batch(store, req.chapter, req.slips,
                                                 req.member_names_file, req.month_year,
                                                 clock))

NextBatch ==
    \/ BatchAgain

SpecBatch == InitBatch /\ [][NextBatch]_vars

(***************************************************************************)
(* Two overlapping runs of process_monthly_reports_batch for one chapter   *)
(* and period, on the store earlier runs left.  A step is a statement or a *)
(* group of statements of one run; the database gives each run the         *)
(* committed rows (READ COMMITTED), makes a run that deletes a row or      *)
(* inserts a key another open transaction has deleted or inserted wait for *)
(* that transaction to end, and enforces unique_together.                  *)
(***************************************************************************)
OverlapRequests ==
    { << Req("batch", "c1", "2025-07", <<x[1]>>, NoFile),
         Req("batch", "c1", "2025-07", <<x[2]>>, x[3]) >> :
        x \in { <<FileA, FileB, NoFile>>, <<FileA, FileA, NoFile>>,
                <<FileU, FileB, NoFile>>, <<FileA, FileC, MembersFileGood>> } }

NewRun(req) ==
    [pc |-> "select", req |-> req, existing |-> {}, changes |-> NoChanges,
     monthly_report |-> NewReport(0, req.chapter, req.month_year, <<>>),
     mem |-> [created |-> 0, updated |-> 0], files |-> NoFilesYet(<<>>),
     inserted |-> {}, result |-> NoResult]

InitOverlap ==
    /\ \E reqs \in SeqsUpTo(PriorRequests, MaxPrior) :
          /\ store = StoreAfter(EmptyStore, reqs, 1)
          /\ before = StoreAfter(EmptyStore, reqs, 1)
    /\ \E reqs \in OverlapRequests : runs = [p \in 1..2 |-> NewRun(reqs[p])]
    /\ returned = NoResult
    /\ clock = MaxPrior + 1
    /\ calls = 0
    /\ nn = NNIdle
    /\ mg = MGIdle
    /\ cmp = CmpIdle

\* the other runs whose transaction is open
Open(p) == {q \in DOMAIN runs \ {p} : runs[q].pc \notin {"select", "done"}}

\* the exception leaves transaction.atomic(): the changes are dropped and
\* the except clause returns the error result
RolledBack(run, message) ==
    [run EXCEPT !.pc = "done", !.changes = NoChanges,
                !.result = Returned(run.req, create_error_result(message))]

\* MonthlyReport.objects.filter(chapter=..., month_year=...).first()
SelectExisting ==
    \E p \in DOMAIN runs :
        /\ runs[p].pc = "select"
        /\ runs' = [runs EXCEPT
                      ![p].existing = ReportsOf(store, runs[p].req.chapter,
                                                runs[p].req.month_year),
                      ![p].pc = IF ReportsOf(store, runs[p].req.chapter,
                                             runs[p].req.month_year) # {}
                                THEN "clear" ELSE "create"]
        /\ UNCHANGED <<store, before, returned, clock, calls, nn, mg, cmp>>

\* the three filter(...).delete() and existing_report.delete()
DeleteExisting ==
    \E p \in DOMAIN runs :
        /\ runs[p].pc = "clear"
        /\ \A q \in Open(p) :
              runs[q].changes.deleted
                  \cap ClearedIds(View(store, runs[p].changes), runs[p].req.chapter,
                                  runs[p].existing) = {}
        /\ runs' = [runs EXCEPT
                      ![p].changes =
                          Changes(store, ClearExisting(View(store, runs[p].changes),
                                                       runs[p].req.chapter,
                                                       runs[p].existing)),
                      ![p].pc = "create"]
        /\ UNCHANGED <<store, before, returned, clock, calls, nn, mg, cmp>>

\* MonthlyReport.objects.create(...): the row, or IntegrityError
CreateReport ==
    \E p \in DOMAIN runs :
        LET run == runs[p]
            Inserted(monthly_report) ==
                [run EXCEPT
                   !.monthly_report = monthly_report,
                   !.changes.reports = @ \cup {monthly_report},
                   !.pc = "slips"]
        IN /\ run.pc = "create"
           /\ \A q \in Open(p) :
                 /\ ReportsOf(runs[q].changes, run.req.chapter, run.req.month_year) = {}
                 /\ ~\E r \in ReportsOf(store, run.req.chapter, run.req.month_year) :
                        r.id \in runs[q].changes.deleted /\ r.id \notin run.changes.deleted
           /\ runs' = [runs EXCEPT ![p] =
                         IF unique_together(store.reports, run.changes.deleted,
                                            run.req.chapter, run.req.month_year)
                         THEN RolledBack(run, "Processing failed: IntegrityError")
                         ELSE Inserted(NewReport(store.seq + 1, run.req.chapter,
                                                 run.req.month_year,
                                                 JoinNames(run.req.slips)))]
           /\ store' = [store EXCEPT !.seq = @ + 1]
           /\ UNCHANGED <<before, returned, clock, calls, nn, mg, cmp>>

\* _process_member_names_file and the loop over the slip files
ProcessSlipFiles ==
    \E p \in DOMAIN runs :
        LET run == runs[p]
            Done(mem, files) ==
                IF files.failed
                THEN RolledBack(run, "Processing failed: Failed to process file")
                ELSE [run EXCEPT !.changes = Changes(store, files.db),
                                 !.mem = [created |-> mem.created, updated |-> mem.updated],
                                 !.files = [files EXCEPT !.db = <<>>],
                                 !.pc = "finish"]
            Members(mem) ==
                IF mem.raised
                THEN [run |-> RolledBack(run, "Processing failed: member names file"),
                      seq |-> mem.db.seq]
                ELSE LET Looped(files) == [run |-> Done(mem, files), seq |-> files.db.seq]
                     IN Looped(SlipFileLoop(NoFilesYet(mem.db), run.req.chapter,
                                            run.req.slips, run.req.month_year, clock))
            Step(out) ==
                /\ runs' = [runs EXCEPT ![p] = out.run]
                /\ store' = [store EXCEPT !.seq = out.seq]
        IN /\ run.pc = "slips"
           /\ Step(Members(process_member_names_file(View(store, run.changes),
                                                     run.req.chapter,
                                                     run.req.member_names_file)))
           /\ UNCHANGED <<before, returned, clock, calls, nn, mg, cmp>>

\* monthly_report.save(), _generate_and_cache_matrices, the return inside
\* transaction.atomic(): the transaction commits
FinishAndCommit ==
    \E p \in DOMAIN runs :
        LET run == runs[p]
            Step(saved) ==
                /\ store' = saved
                /\ runs' = [runs EXCEPT
                              ![p].pc = "done",
                              ![p].inserted = Ids(run.changes.referrals)
                                                \cup Ids(run.changes.one_to_ones)
                                                \cup Ids(run.changes.tyfcbs),
                              ![p].changes = NoChanges,
                              ![p].result =
                                  Returned(run.req,
                                           SuccessResult(run.files, run.mem,
                                                         run.files.warnings))]
        IN /\ run.pc = "finish"
           /\ Step(SaveAndCache(View(store, run.changes),
                                [run.monthly_report EXCEPT !.processed_at = clock],
                                run.req.chapter))
           /\ UNCHANGED <<before, returned, clock, calls, nn, mg, cmp>>

NextOverlap ==
    \/ SelectExisting
    \/ DeleteExisting
    \/ CreateReport
    \/ ProcessSlipFiles
    \/ FinishAndCommit

SpecOverlap == InitOverlap /\ [][NextOverlap]_vars

(***************************************************************************)
(* process_chapter_data of upload_all_data.py: one ExcelProcessorService   *)
(* for the chapter, and process_monthly_report on it for each .xls file of *)
(* the folder in turn.  Only __init__ and process_excel_file empty the     *)
(* instance's errors and warnings, so a call starts with the lists the     *)
(* calls before it left.                                                   *)
(***************************************************************************)
MaxFiles == 3

FolderFiles == {FileA, FileB, FileC, FileE, FileU}

Folders ==
    UNION { [1..n -> FolderFiles] : n \in 1..MaxFiles }

\* ExcelProcessorService.__init__
NewService == [errors |-> <<>>, warnings |-> <<>>]

\* self.errors and self.warnings after a call of process_monthly_report that
\* read the table as read and returned result to a fresh instance
ServiceAfter(service, read, result) ==
    [errors |-> service.errors \o (IF read.ok THEN <<>> ELSE <<read.error>>),
     warnings |-> service.warnings \o result.warnings]

\* the return of process_monthly_report on the instance: 'errors':
\* self.errors and 'warnings': self.warnings beside 'success': True
ResultOn(service, result) ==
    IF result.success
    THEN [result EXCEPT !.errors = service.errors \o @,
                        !.warnings = service.warnings \o @]
    ELSE result

InitScript ==
    /\ store = EmptyStore
    /\ before = EmptyStore
    /\ returned = NoResult
    /\ clock = 1
    /\ calls = 0
    /\ nn = NNIdle
    /\ mg = MGIdle
    /\ cmp = CmpIdle
    /\ \E folder \in Folders :
          runs = <<[service |-> NewService, xls_files |-> folder]>>

ProcessedOn(run, req, out) ==
    /\ store' = out.db
    /\ before' = store
    /\ returned' = Returned(req, ResultOn(run.service, out.result))
    /\ calls' = calls + 1
    /\ runs' = <<[service |-> ServiceAfter(run.service,
                                           read_excel_file(req.slips[1]), out.result),
                  xls_files |-> Tail(run.xls_files)]>>
    /\ UNCHANGED <<clock, nn, mg, cmp>>

\* one turn of the loop over xls_files
ProcessChapterData ==
    /\ runs[1].xls_files # <<>>
    /\ ProcessedOn(runs[1],
                   Req("monthly", "c1", "2025-08", <<Head(runs[1].xls_files)>>, NoFile),
                   process_monthly_report(store, "c1", Head(runs[1].xls_files), NoFile,
                                          "2025-08", clock))

NextScript == ProcessChapterData

SpecScript == InitScript /\ [][NextScript]_vars

(***************************************************************************)
(* The row loop of _process_dataframe, one row a step, on a table of the   *)
(* three leading rows, one row drawn from the cell values below and a      *)
(* referral row after it.  results are the accumulators after the rows     *)
(* before idx, prior the accumulators one row earlier.                     *)
(***************************************************************************)
GiverCells == {None, <<"A","l"," ","R","a","y">>, <<"Z","e","d"," ","O","r","r">>}

ReceiverCells == {None, <<"B","o"," ","L","e","e">>, <<"A","l"," ","R","a","y">>, <<"Z","e","d"," ","O","r","r">>}

SlipTypeCells ==
    {None, <<" "," ">>, <<"R","e","f","e","r","r","a","l">>, <<"R","E","F","E","R","R","A","L"," ","s","l","i","p">>, <<"P","r","e","f","e","r","r","e","d">>, <<"1","t","o","1">>, <<"T","Y","F","C","B">>,
     <<"C","l","o","s","e","d"," ","B","u","s","i","n","e","s","s">>, <<"C","E","U">>}

InsideOutsideCells == {None, <<"I","n","s","i","d","e">>}

AmountCells == {None, <<"5","0","0">>, <<"-","5">>}

RowInputs ==
    { Row(c.from, c.to, c.slip_type, c.inside_outside, c.amount, None) :
        c \in [from : GiverCells, to : ReceiverCells, slip_type : SlipTypeCells,
               inside_outside : InsideOutsideCells, amount : AmountCells] }

InitRows ==
    /\ store = EmptyStore
    /\ before = EmptyStore
    /\ returned = NoResult
    /\ clock = 1
    /\ calls = 0
    /\ nn = NNIdle
    /\ mg = MGIdle
    /\ cmp = CmpIdle
    /\ \E row \in RowInputs :
          runs = <<[df |-> LeadingRows \o <<row, RowAlToBo>>, idx |-> 0,
                    results |-> EmptyBatch, prior |-> EmptyBatch]>>

\* for idx, row in df.iterrows(): the body on the row at idx
IterRow ==
    /\ runs[1].idx < Len(runs[1].df)
    /\ runs' = <<[df |-> runs[1].df, idx |-> runs[1].idx + 1,
                  results |-> ProcessRow(runs[1].results, runs[1].df[runs[1].idx + 1],
                                         runs[1].idx,
                                         get_members_lookup(store.members, "c1")),
                  prior |-> runs[1].results]>>
    /\ UNCHANGED <<store, before, returned, clock, calls, nn, mg, cmp>>

NextRows == IterRow

SpecRows == InitRows /\ [][NextRows]_vars

(***************************************************************************)
(* The loop of _get_members_lookup, one member a step, on the active       *)
(* members of a chapter in the order of the queryset.  lookup is the       *)
(* dictionary after the members before k, prior the dictionary one member  *)
(* earlier.                                                                *)
(***************************************************************************)
RosterCandidates ==
    { Mem(1, "c1", Str_Bo, Str_Lee), Mem(2, "c1", Str_Al, Str_Ray),
      Mem(3, "c1", Str_Al, Str_Lee), Mem(4, "c1", Str_Al, <<"S","r",".">>),
      Mem(5, "c1", Str_Bo, Str_Ray), Mem(6, "c1", <<"A","L">>, Str_Fox) }

EmptyLookup == [key \in {} |-> NoMember]

InitLookup ==
    /\ before = EmptyStore
    /\ returned = NoResult
    /\ clock = 1
    /\ calls = 0
    /\ nn = NNIdle
    /\ mg = MGIdle
    /\ cmp = CmpIdle
    /\ \E roster \in SUBSET RosterCandidates :
          /\ store = [EmptyStore EXCEPT !.members = roster,
                                        !.seq = Cardinality(RosterCandidates)]
          /\ runs = <<[members |-> ActiveMembers(roster, "c1"), k |-> 0,
                       lookup |-> EmptyLookup, prior |-> EmptyLookup]>>

\* for member in members: the body on the member after the first k
RegisterMember ==
    /\ runs[1].k < Len(runs[1].members)
    /\ runs' = <<[members |-> runs[1].members, k |-> runs[1].k + 1,
                  lookup |-> LookupAdd(runs[1].lookup, runs[1].members[runs[1].k + 1]),
                  prior |-> runs[1].lookup]>>
    /\ UNCHANGED <<store, before, returned, clock, calls, nn, mg, cmp>>

NextLookup == RegisterMember

SpecLookup == InitLookup /\ [][NextLookup]_vars

(***************************************************************************)
(* _parse_xml_excel on a table of a header row of two dense cells and one  *)
(* row of sparse cells.  A cell is its ss:Index attribute (0 when the cell *)
(* has none) and the text of its Data element ("" when it has none).  The  *)
(* inner loop takes one cell a step; row_data is the row so far, prior the *)
(* row one cell earlier.                                                   *)
(***************************************************************************)
MaxCells == 3

MaxIndex == 5

CellTexts == {"", "v"}

XmlCells == [index : 0..MaxIndex, text : CellTexts]

XmlRows == UNION { [1..n -> XmlCells] : n \in 0..MaxCells }

HeaderCells == <<[index |-> 0, text |-> "From"], [index |-> 0, text |-> "To"]>>

\* while col_index < target_index: row_data.append(""); col_index += 1
RECURSIVE FillGapOnce(_, _)
FillGapOnce(acc, target_index) ==
    IF acc.col_index < target_index
    THEN FillGapOnce([row_data |-> Append(acc.row_data, ""),
                      col_index |-> acc.col_index + 1], target_index)
    ELSE acc

\* the body of 'for cell in cells' with the index taken as 0-based
AppendCellZeroBased(acc, cell) ==
    LET Emit(filled) ==
            [row_data |-> Append(filled.row_data, cell.text),
             col_index |-> filled.col_index + 1]
    IN Emit(IF cell.index # 0 THEN FillGapOnce(acc, cell.index) ELSE acc)

\* the body of 'for cell in cells'
AppendCell(acc, cell) ==
    LET Emit(filled) ==
            [row_data |-> Append(filled.row_data, cell.text),
             col_index |-> filled.col_index + 1]
    IN Emit(IF cell.index # 0 THEN FillGapOnce(acc, cell.index - 1) ELSE acc)

RECURSIVE CellLoop(_, _)
CellLoop(acc, cells) ==
    IF cells = <<>> THEN acc ELSE CellLoop(AppendCell(acc, cells[1]), Tail(cells))

NoCells == [row_data |-> <<>>, col_index |-> 0]

Max(a, b) == IF a >= b THEN a ELSE b

\* headers.append(f"Column_{len(headers)}") up to max_cols
RECURSIVE PadHeaders(_, _)
PadHeaders(headers, max_cols) ==
    IF Len(headers) < max_cols
    THEN PadHeaders(Append(headers, "Column_" \o ToString(Len(headers))), max_cols)
    ELSE headers

\* row.append("") up to max_cols
RECURSIVE PadRow(_, _)
PadRow(row, max_cols) ==
    IF Len(row) < max_cols THEN PadRow(Append(row, ""), max_cols) ELSE row

\* pd.DataFrame(data_rows, columns=headers) of the header row and one row
DataFrame(headers, row_data) ==
    [columns |-> PadHeaders(headers, Max(Len(headers), Len(row_data))),
     rows |-> <<PadRow(row_data, Max(Len(headers), Len(row_data)))>>]

NoDataFrame == [columns |-> <<>>, rows |-> <<>>]

InitXml ==
    /\ store = EmptyStore
    /\ before = EmptyStore
    /\ returned = NoResult
    /\ clock = 1
    /\ calls = 0
    /\ nn = NNIdle
    /\ mg = MGIdle
    /\ cmp = CmpIdle
    /\ \E cells \in XmlRows :
          runs = <<[cells |-> cells, j |-> 0, acc |-> NoCells, prior |-> NoCells,
                    df |-> NoDataFrame]>>

\* for cell in cells: the body on the cell after the first j
DecodeCell ==
    /\ runs[1].j < Len(runs[1].cells)
    /\ runs' = <<[runs[1] EXCEPT
                    !.j = @ + 1,
                    !.acc = AppendCell(runs[1].acc, runs[1].cells[runs[1].j + 1]),
                    !.prior = runs[1].acc]>>
    /\ UNCHANGED <<store, before, returned, clock, calls, nn, mg, cmp>>

\* the rows are done: padding to max_cols and the DataFrame
BuildDataFrame ==
    /\ runs[1].j = Len(runs[1].cells)
    /\ runs[1].df = NoDataFrame
    /\ runs' = <<[runs[1] EXCEPT
                    !.df = DataFrame(CellLoop(NoCells, HeaderCells).row_data,
                                     runs[1].acc.row_data)]>>
    /\ UNCHANGED <<store, before, returned, clock, calls, nn, mg, cmp>>

NextXml ==
    \/ DecodeCell
    \/ BuildDataFrame

SpecXml == InitXml /\ [][NextXml]_vars

(***************************************************************************)
(* Claims on the ingestion runs.  store is the database after the last     *)
(* call, before the database that call started from, returned its result.  *)
(***************************************************************************)
IngestionOps == {"excel", "monthly", "batch"}

PeriodOps == {"monthly", "batch"}

RecordsOf(records) == { records[i] : i \in DOMAIN records }

Attributable(records, tag) == { r \in RecordsOf(records) : r.ingested_for = tag }

AttributableSeq(records, tag) == SelectSeq(records, LAMBDA r : r.ingested_for = tag)

Added(field) == { r.id : r \in RecordsOf(store[field]) } \ { r.id : r \in RecordsOf(before[field]) }

ReturnedTag == Tag(returned.chapter, returned.month_year)

ReturnedReport == CHOOSE r \in ReportsOf(store, returned.chapter, returned.month_year) : TRUE

Matrices(report) ==
    [referral_matrix_data |-> report.referral_matrix_data,
     oto_matrix_data |-> report.oto_matrix_data,
     combination_matrix_data |-> report.combination_matrix_data]

PeriodRunSucceeded == returned.op \in PeriodOps /\ returned.success

\* C1: after a successful process_monthly_report or
\* process_monthly_reports_batch for (chapter, period), none of the records
\* that were attributable to that (chapter, period) before the run is still
\* stored: the run replaced them by the records of its own files.
C1_FullReplace ==
    PeriodRunSucceeded =>
        \A field \in {"referrals", "one_to_ones", "tyfcbs"} :
            Attributable(store[field], ReturnedTag)
                \cap Attributable(before[field], ReturnedTag) = {}

\* C2: whenever an ingestion entry point returns success = false, the store
\* is exactly the store the run started from.
C2_AllOrNothing ==
    (returned.op \in IngestionOps /\ ~returned.success) => store = before

\* C3: a snapshot a successful run has just generated for period P of a
\* chapter equals the matrices of the chapter's active roster over the
\* records attributable to (chapter, P) alone; records of another period
\* add to no cell.
C3_SnapshotScoped ==
    (/\ PeriodRunSucceeded
     /\ \/ returned.op = "batch"
        \/ ReportsOf(before, returned.chapter, returned.month_year) = {})
    => Matrices(ReturnedReport) =
          Snapshot(ActiveMembers(store.members, returned.chapter),
                   AttributableSeq(store.referrals, ReturnedTag),
                   AttributableSeq(store.one_to_ones, ReturnedTag))

\* C4: at the end of every successful run for (chapter, period), also one
\* onto an existing report, the report's three matrices equal the matrices
\* generated from the chapter's active roster and records as stored then.
C4_SnapshotRegenerated ==
    PeriodRunSucceeded =>
        Matrices(ReturnedReport) =
            Snapshot(ActiveMembers(store.members, returned.chapter),
                     OfChapter(store.referrals, returned.chapter, "giver"),
                     OfChapter(store.one_to_ones, returned.chapter, "member1"))

\* C5: no stored Referral has giver = receiver and no stored OneToOne has
\* member1 = member2, whatever runs came before.
C5_NoSelfInteraction ==
    /\ \A r \in RecordsOf(store.referrals) : r.giver.id # r.receiver.id
    /\ \A o \in RecordsOf(store.one_to_ones) : o.member1.id # o.member2.id

HasWarning(text) == \E i \in DOMAIN returned.warnings : returned.warnings[i].text = text

\* a run met a referral row and a one-to-one row whose two spellings resolve
\* to one member, dropped both with a warning, and stored other records
C5_Witness ==
    /\ returned.op \in IngestionOps
    /\ returned.success
    /\ HasWarning("Self-referral detected, skipping")
    /\ HasWarning("Self-meeting detected, skipping")
    /\ store.referrals # <<>>
    /\ store.one_to_ones # <<>>

\* C6: every stored TYFCB has amount >= 0 and, if it has a giver, a giver
\* other than its receiver.
C6_TyfcbValid ==
    \A t \in RecordsOf(store.tyfcbs) :
        /\ t.amount >= 0
        /\ t.giver # NoMember => t.giver.id # t.receiver.id

\* C7: the created counts a successful run reports are the numbers of
\* referral, one-to-one and TYFCB records the run added to the store.
C7_CountsAreAdded ==
    (returned.op \in IngestionOps /\ returned.success) =>
        /\ returned.referrals_created = Cardinality(Added("referrals"))
        /\ returned.one_to_ones_created = Cardinality(Added("one_to_ones"))
        /\ returned.tyfcbs_created = Cardinality(Added("tyfcbs"))

(***************************************************************************)
(* Claims on MatrixGenerator                                               *)
(***************************************************************************)
\* the records of rs given by member a to member b
CountFromTo(rs, a, b) ==
    Cardinality({k \in DOMAIN rs : rs[k].giver.id = a.id /\ rs[k].receiver.id = b.id})

\* the cell of the row of roster member a and the column of roster member b
CellOf(df, a, b) ==
    LET i == CHOOSE i \in DOMAIN df.index : df.index[i] = full_name(a)
        j == CHOOSE j \in DOMAIN df.index : df.index[j] = full_name(b)
    IN df.values[i][j]

RECURSIVE SumSeq(_)
SumSeq(q) == IF q = <<>> THEN 0 ELSE q[1] + SumSeq(Tail(q))

InRoster(roster, m) == \E i \in DOMAIN roster : roster[i].id = m.id

\* C10: generate_referral_matrix returns an N x N matrix whose cell (i, j) is
\* the number of records given by member i to member j; a record whose giver
\* or receiver is not in the roster changes no cell.
C10_ReferralMatrix ==
    mg.stage = "referral" =>
        LET N == Len(mg.members) IN
        /\ Len(mg.matrix.values) = N
        /\ \A i \in 1..N : Len(mg.matrix.values[i]) = N
        /\ \A i, j \in 1..N :
              CellOf(mg.matrix, mg.members[i], mg.members[j])
                  = CountFromTo(mg.referrals, mg.members[i], mg.members[j])
        /\ SumSeq([i \in 1..N |-> SumSeq(mg.matrix.values[i])])
              = Cardinality({k \in DOMAIN mg.referrals :
                                /\ InRoster(mg.members, mg.referrals[k].giver)
                                /\ InRoster(mg.members, mg.referrals[k].receiver)})

\* a two-member roster given out of name order, one counted referral and one
\* referral from a member outside the roster
C10_Witness ==
    /\ mg.stage = "referral"
    /\ Len(mg.members) = 2
    /\ StrLess(full_name(mg.members[2]), full_name(mg.members[1]))
    /\ Len(mg.referrals) = 2
    /\ InRoster(mg.members, mg.referrals[1].giver)
    /\ InRoster(mg.members, mg.referrals[1].receiver)
    /\ mg.referrals[1].giver # mg.referrals[1].receiver
    /\ ~InRoster(mg.members, mg.referrals[2].giver)
    /\ mg.matrix.values # ZeroFrame(mg.matrix.index).values

\* C11: every matrix generate_one_to_one_matrix returns is symmetric: for every
\* roster, every list of meetings and all i, j, matrix[i][j] = matrix[j][i].
C11_OneToOneSymmetric ==
    mg.stage = "one_to_one" =>
        \A i, j \in DOMAIN mg.matrix.index :
            mg.matrix.values[i][j] = mg.matrix.values[j][i]

\* two meetings of the same two roster members, named in the two orders, and
\* the cell of the pair counts both
C11_Witness ==
    /\ mg.stage = "one_to_one"
    /\ Len(mg.one_to_ones) = 2
    /\ mg.one_to_ones[1].member1 # mg.one_to_ones[1].member2
    /\ mg.one_to_ones[2].member1 = mg.one_to_ones[1].member2
    /\ mg.one_to_ones[2].member2 = mg.one_to_ones[1].member1
    /\ InRoster(mg.members, mg.one_to_ones[1].member1)
    /\ InRoster(mg.members, mg.one_to_ones[1].member2)
    /\ CellOf(mg.matrix, mg.one_to_ones[1].member1, mg.one_to_ones[1].member2) = 2

\* a meeting of a roster member with themself: the diagonal cell counts it twice
C11_WitnessSelf ==
    /\ mg.stage = "one_to_one"
    /\ \E k \in DOMAIN mg.one_to_ones :
          /\ mg.one_to_ones[k].member1 = mg.one_to_ones[k].member2
          /\ InRoster(mg.members, mg.one_to_ones[k].member1)
          /\ CellOf(mg.matrix, mg.one_to_ones[k].member1, mg.one_to_ones[k].member1) >= 2

\* C12: the combination matrix is derived cell by cell from the referral and
\* one-to-one matrices of the same inputs: off the diagonal a cell is 3 iff both
\* ref[i][j] > 0 and oto[i][j] > 0, 2 iff only ref[i][j] > 0, 1 iff only
\* oto[i][j] > 0, and 0 otherwise; every diagonal cell is 0.
C12_CombinationCells ==
    mg.stage = "combination" =>
        LET gen == MatrixGenerator(mg.members)
            ref == generate_referral_matrix(gen, mg.referrals)
            oto == generate_one_to_one_matrix(gen, mg.one_to_ones)
            combo == mg.matrix
        IN /\ combo.index = ref.index
           /\ combo.index = oto.index
           /\ \A i, j \in DOMAIN combo.index :
                 IF i = j THEN combo.values[i][j] = 0
                 ELSE /\ combo.values[i][j] \in 0..3
                      /\ combo.values[i][j] = 3
                             <=> (ref.values[i][j] > 0 /\ oto.values[i][j] > 0)
                      /\ combo.values[i][j] = 2
                             <=> (ref.values[i][j] > 0 /\ ~(oto.values[i][j] > 0))
                      /\ combo.values[i][j] = 1
                             <=> (~(ref.values[i][j] > 0) /\ oto.values[i][j] > 0)
                      /\ combo.values[i][j] = 0
                             <=> (~(ref.values[i][j] > 0) /\ ~(oto.values[i][j] > 0))

\* a roster of three whose referrals and meetings produce cells of all four
\* values off the diagonal
C12_Witness ==
    /\ mg.stage = "combination"
    /\ Len(mg.members) = 3
    /\ \A v \in 0..3 :
          \E i, j \in DOMAIN mg.matrix.index : i # j /\ mg.matrix.values[i][j] = v

\* a referral of a member to themself and a meeting of a member with themself
\* leave the diagonal at 0
C12_WitnessDiagonal ==
    /\ mg.stage = "combination"
    /\ Len(mg.referrals) = 1
    /\ Len(mg.one_to_ones) = 1
    /\ mg.referrals[1].giver = mg.referrals[1].receiver
    /\ mg.one_to_ones[1].member1 = mg.one_to_ones[1].member2
    /\ mg.one_to_ones[1].member1 = mg.referrals[1].giver
    /\ InRoster(mg.members, mg.referrals[1].giver)

SheetCall == returned.op \in IngestionOps /\ "file" \in DOMAIN returned

CountRows(data, rows) == Cardinality({k \in DOMAIN data : data[k] \in rows})

\* the referral matrix stored in the report of the call, addressed by member
ReturnedReferralCell(a, b) ==
    CellOf([index |-> MatrixGenerator(ActiveMembers(store.members, returned.chapter)).member_names,
            values |-> ReturnedReport.referral_matrix_data.matrix], a, b)

\* C13: with the active roster [Al Ray, Bo Lee] and a spreadsheet made of one
\* header row followed by data rows, each data row with a resolvable giver, a
\* different resolvable receiver and slip type "Referral" creates one referral;
\* for the single row (Al Ray, Bo Lee, Referral) the call returns
\* referrals_created = 1 and the referral matrix generated has cell
\* (Al Ray, Bo Lee) = 1 and cell (Bo Lee, Al Ray) = 0.
C13_HeaderThenRows ==
    (SheetCall /\ returned.file.layout = "header") =>
        /\ returned.referrals_created
               = CountRows(returned.file.data, {RowAlToBo, RowBoToAl})
        /\ (returned.file.data = <<RowAlToBo>> /\ returned.op \in PeriodOps) =>
               /\ returned.referrals_created = 1
               /\ ReturnedReferralCell(AlRay, BoLee) = 1
               /\ ReturnedReferralCell(BoLee, AlRay) = 0

\* the names a row gives that no member of the roster [Al Ray, Bo Lee] has
UnmatchedNames(row) ==
    { row[c + 1] : c \in {col_giver_name, col_receiver_name} }
        \cap { <<"Z","e","d"," ","O","r","r">>, <<"A","n","n"," ","P","o","e">> }

\* the rows of the call's table that the row loop reads as slips
SlipRowsRead == returned.file.layout = "metadata"

C15_FailureIsReturned ==
    SheetCall =>
        /\ returned.success \in BOOLEAN
        /\ (\/ ~returned.file.parse_ok
            \/ returned.file.rows = <<>>
            \/ returned.file.layout = "narrow"
            \/ (returned.member_names_file # NoFile /\ ~returned.member_names_file.parse_ok))
              => /\ returned.success = FALSE
                 /\ returned.error # ""
                 /\ returned.referrals_created = 0

\* a call of each entry point on a file of two columns has returned
C15_Witness ==
    /\ SheetCall
    /\ returned.file.layout = "narrow"
    /\ ~returned.success

\* a call on a file that cannot be parsed has returned
C15_WitnessUnparseable ==
    /\ SheetCall
    /\ ~returned.file.parse_ok
    /\ returned.op = "batch"
    /\ ~returned.success

\* a call on a worksheet holding its header row only has returned
C15_WitnessEmpty ==
    /\ SheetCall
    /\ returned.file.parse_ok
    /\ returned.file.rows = <<>>
    /\ returned.op = "monthly"
    /\ ~returned.success

\* a call whose member names file has no worksheet has returned
C15_WitnessRaised ==
    /\ SheetCall
    /\ returned.member_names_file # NoFile
    /\ ~returned.success

(***************************************************************************)
(* Claims on ComparisonService                                             *)
(***************************************************************************)
ReportsCompared == cmp.stage = "compared" /\ cmp.call = "reports"

MatricesCompared == cmp.stage = "compared" /\ cmp.call = "matrices"

ComparisonFields ==
    {"referral_comparison", "oto_comparison", "combination_comparison", "overall_insights"}

\* C16: compare_monthly_reports called with two reports of different chapters
\* raises an explicit "different chapters" error before any matrix comparison
\* is computed; no partial comparison report is returned.
C16_DifferentChaptersRaises ==
    (ReportsCompared /\ cmp.current.chapter # cmp.previous.chapter) =>
        /\ cmp.result.raised
        /\ cmp.result.exception = "ValueError"
        /\ cmp.result.message = "Cannot compare reports from different chapters"
        /\ DOMAIN cmp.result \cap ComparisonFields = {}

\* two reports of different chapters, each holding matrices that could be
\* compared, and the call has raised
C16_Witness ==
    /\ ReportsCompared
    /\ cmp.current.chapter # cmp.previous.chapter
    /\ cmp.current.referral_matrix_data.members # <<>>
    /\ cmp.previous.referral_matrix_data.members # <<>>
    /\ cmp.result.raised

\* two reports of one chapter are compared and a full report is returned
C16_WitnessSameChapter ==
    /\ ReportsCompared
    /\ cmp.current.chapter = cmp.previous.chapter
    /\ ~cmp.result.raised
    /\ ComparisonFields \subseteq DOMAIN cmp.result

Degenerate(data) == data = NoneData \/ data = EmptyDict

MatrixKinds == {"referral", "oto", "combination"}

\* C17: compare_referral_matrices, compare_oto_matrices and
\* compare_combination_matrices never raise on degenerate input: whenever
\* either snapshot is missing (None) or empty, each returns a structured
\* result carrying an 'error' entry.
C17_DegenerateGivesError ==
    (MatricesCompared /\ (Degenerate(cmp.current) \/ Degenerate(cmp.previous))) =>
        \A kind \in MatrixKinds :
            /\ "error" \in DOMAIN cmp.result[kind]
            /\ cmp.result[kind].error = "Missing matrix data"

\* a stored snapshot was compared with an empty one
C17_Witness ==
    /\ MatricesCompared
    /\ cmp.current \in Snapshots
    /\ cmp.current.members # <<>>
    /\ cmp.previous = EmptyDict
    /\ "error" \in DOMAIN cmp.result.referral

\* a missing snapshot was compared with a stored one
C17_WitnessNone ==
    /\ MatricesCompared
    /\ cmp.current = NoneData
    /\ cmp.previous \in Snapshots
    /\ "error" \in DOMAIN cmp.result.oto

BothStored == MatricesCompared /\ cmp.current \in Snapshots /\ cmp.previous \in Snapshots

\* the entry of member_changes under a name
ChangeOf(kind, name) ==
    LET items == cmp.result[kind].member_changes
    IN items[CHOOSE k \in DOMAIN items : items[k].key = name].value

\* the positions of the previous list whose name normalizes as name does
MatchesOf(name) ==
    {idx \in DOMAIN cmp.previous.members :
        normalize_name(cmp.previous.members[idx]) = normalize_name(name)}

\* C18: the comparison aligns members by normalized name, never by position:
\* previous_total and previous_unique of a member of the current snapshot
\* come from the previous-snapshot row whose name normalizes to the same
\* string, wherever that row sits; without such a row the member has
\* is_new_member = true, previous_total = 0 and previous_unique = 0, and
\* is_new_member is false whenever a match exists.
C18_AlignedByName ==
    BothStored =>
        \A kind \in {"referral", "oto"} : \A i \in DOMAIN cmp.current.members :
            LET name == cmp.current.members[i]
                entry == ChangeOf(kind, name)
            IN /\ entry.is_new_member <=> MatchesOf(name) = {}
               /\ MatchesOf(name) = {} =>
                     entry.previous_total = 0 /\ entry.previous_unique = 0
               /\ \A idx \in MatchesOf(name) :
                     /\ entry.previous_total = SumSeq(cmp.previous.matrix[idx])
                     /\ entry.previous_unique
                            = Cardinality({j \in DOMAIN cmp.previous.matrix[idx] :
                                             cmp.previous.matrix[idx][j] > 0})
               /\ entry.current_total = SumSeq(cmp.current.matrix[i])

\* the same two members in the other order and one under another spelling,
\* their rows differing, and a third snapshot member without a match
C18_Witness ==
    /\ BothStored
    /\ Len(cmp.current.members) = 2
    /\ Len(cmp.previous.members) = 2
    /\ MatchesOf(cmp.current.members[1]) = {2}
    /\ cmp.current.members[1] # cmp.previous.members[2]
    /\ SumSeq(cmp.previous.matrix[1]) # SumSeq(cmp.previous.matrix[2])
    /\ ChangeOf("referral", cmp.current.members[1]).previous_total
           = SumSeq(cmp.previous.matrix[2])
    /\ ~ChangeOf("referral", cmp.current.members[1]).is_new_member

\* a member of the current snapshot that the previous snapshot does not name
C18_WitnessNew ==
    /\ BothStored
    /\ cmp.previous.members # <<>>
    /\ \E i \in DOMAIN cmp.current.members :
          /\ MatchesOf(cmp.current.members[i]) = {}
          /\ SumSeq(cmp.previous.matrix[1]) > 0
          /\ ChangeOf("oto", cmp.current.members[i]).is_new_member

\* C19: comparing a referral or one-to-one snapshot with itself yields
\* change = 0 and status no_change for every member, hence improved = 0,
\* declined = 0 and average_change = 0 in the summary.
C19_SelfComparison ==
    (BothStored /\ cmp.current = cmp.previous) =>
        \A kind \in {"referral", "oto"} :
            /\ \A i \in DOMAIN cmp.current.members :
                  /\ ChangeOf(kind, cmp.current.members[i]).change = 0
                  /\ ChangeOf(kind, cmp.current.members[i]).status = "no_change"
            /\ cmp.result[kind].summary.improved = 0
            /\ cmp.result[kind].summary.declined = 0
            /\ cmp.result[kind].summary.average_change = 0
            /\ cmp.result[kind].summary.no_change = Len(cmp.current.members)

\* a snapshot of two members with interactions, compared with itself
C19_Witness ==
    /\ BothStored
    /\ cmp.current = cmp.previous
    /\ Len(cmp.current.members) = 2
    /\ SumSeq(cmp.current.matrix[1]) > 0
    /\ SumSeq(cmp.current.matrix[2]) = 0
    /\ cmp.result.referral.summary.no_change = 2

StatusCount(kind, status) ==
    LET items == cmp.result[kind].member_changes
    IN Cardinality({k \in DOMAIN items : items[k].value.status = status})

\* C20: in every comparison summary (referral, one-to-one, combination),
\* total_members = improved + declined + no_change, and each of the three
\* counts is the number of member_changes entries carrying that status.
C20_SummaryCounts ==
    BothStored =>
        \A kind \in MatrixKinds :
            LET summary == cmp.result[kind].summary IN
            /\ summary.total_members = summary.improved + summary.declined + summary.no_change
            /\ summary.total_members = Len(cmp.result[kind].member_changes)
            /\ summary.improved = StatusCount(kind, "improved")
            /\ summary.declined = StatusCount(kind, "declined")
            /\ summary.no_change = StatusCount(kind, "no_change")

\* a comparison in which one member improved and another declined
C20_Witness ==
    /\ BothStored
    /\ cmp.result.referral.summary.improved = 1
    /\ cmp.result.referral.summary.declined = 1
    /\ cmp.result.referral.summary.total_members = 2
    /\ cmp.result.combination.summary.total_members = 2

\* a comparison in which a member is unchanged and a new member improved
C20_WitnessNoChange ==
    /\ BothStored
    /\ cmp.result.oto.summary.no_change = 1
    /\ cmp.result.oto.summary.improved = 1
    /\ cmp.result.oto.summary.new_members = 1

(***************************************************************************)
(* Claims on the summaries and the combination counts.                     *)
(***************************************************************************)
TotalsCompared == cmp.stage = "compared" /\ cmp.call = "totals"

\* the number of member_changes entries whose change lies in S
ChangesIn(kind, S) ==
    LET items == cmp.result[kind].member_changes
    IN Cardinality({k \in DOMAIN items : items[k].value.change \in S})

\* C21: in every referral / one-to-one comparison summary, top_improvements
\* holds at most 5 entries, sorted descending by change, each with
\* change > 0, and top_declines holds at most 5 entries, sorted ascending by
\* change (most negative first), each with change < 0.
C21_TopLists ==
    TotalsCompared =>
        \A kind \in {"referral", "oto"} :
            LET top_improvements == cmp.result[kind].summary.top_improvements
                top_declines == cmp.result[kind].summary.top_declines
            IN /\ Len(top_improvements) <= 5
               /\ Len(top_declines) <= 5
               /\ \A k \in DOMAIN top_improvements : top_improvements[k].change > 0
               /\ \A k \in DOMAIN top_declines : top_declines[k].change < 0
               /\ \A k \in DOMAIN top_improvements : \A l \in DOMAIN top_improvements :
                     k < l => top_improvements[k].change >= top_improvements[l].change
               /\ \A k \in DOMAIN top_declines : \A l \in DOMAIN top_declines :
                     k < l => top_declines[k].change <= top_declines[l].change

\* six members improved by different amounts, the smaller amounts first in
\* the roster, and five of them are listed
C21_Witness ==
    /\ TotalsCompared
    /\ ChangesIn("referral", {c \in 1..(MaxTotal + 1) : TRUE}) = 6
    /\ cmp.result.referral.member_changes[1].value.change = 1
    /\ cmp.result.referral.member_changes[6].value.change = 2
    /\ Len(cmp.result.referral.summary.top_improvements) = 5
    /\ cmp.result.referral.summary.top_improvements[1].change = 2

\* six members declined by different amounts, and five of them are listed
C21_WitnessDeclines ==
    /\ TotalsCompared
    /\ ChangesIn("oto", {0 - c : c \in 1..(MaxTotal + 1)}) = 6
    /\ cmp.result.oto.member_changes[1].value.change = 0 - 1
    /\ cmp.result.oto.member_changes[6].value.change = 0 - 2
    /\ Len(cmp.result.oto.summary.top_declines) = 5
    /\ cmp.result.oto.summary.top_declines[1].change = 0 - 2

\* fewer than five members improved, beside members that did not change
C21_WitnessUnchanged ==
    /\ TotalsCompared
    /\ ChangesIn("referral", {0}) >= 2
    /\ Len(cmp.result.referral.summary.top_improvements) = 2
    /\ Len(cmp.result.referral.summary.top_declines) = 2

\* the member of the roster whose display name is name
NamedMember(name) ==
    CHOOSE m \in {mg.members[k] : k \in DOMAIN mg.members} : full_name(m) = name

\* C22: in every stored snapshot the member list is the index of the matrix:
\* the name at position i of 'members' is the display name of the member
\* whose interactions are counted in row i and column i of 'matrix', for
\* every roster the store returns.
C22_MembersIndexMatrix ==
    mg.stage = "snapshot" =>
        LET data == mg.snapshot.referral_matrix_data IN
        /\ Len(data.members) = Len(data.matrix)
        /\ \A i, j \in DOMAIN data.members :
              data.matrix[i][j]
                  = CountFromTo(mg.referrals, NamedMember(data.members[i]),
                                NamedMember(data.members[j]))

\* the number of cells of a row, the cell at position own left out, that
\* hold the value v
CountOffDiagonal(row, own, v) ==
    Cardinality({j \in DOMAIN row : j # own /\ row[j] = v})

CountsSum(counts) ==
    counts.neither + counts.oto_only + counts.referral_only + counts.both

\* the value of each category of combination_matrix_data
CategoryValues ==
    [neither |-> 0, oto_only |-> 1, referral_only |-> 2, both |-> 3]

\* C23: in a combination comparison, each member's counts of neither /
\* oto_only / referral_only / both are tallied over the member's row
\* excluding the diagonal cell, for the current and the previous period, so
\* that for an N-member snapshot the four counts of a row sum to N - 1.
C23_CountsExcludeDiagonal ==
    BothStored =>
        \A i \in DOMAIN cmp.current.members :
            LET entry == ChangeOf("combination", cmp.current.members[i]) IN
            /\ CountsSum(entry.current_counts) = Len(cmp.current.members) - 1
            /\ \A c \in DOMAIN CategoryValues :
                  entry.current_counts[c]
                      = CountOffDiagonal(cmp.current.matrix[i], i, CategoryValues[c])
            /\ \A idx \in MatchesOf(cmp.current.members[i]) :
                  /\ CountsSum(entry.previous_counts) = Len(cmp.previous.members) - 1
                  /\ \A c \in DOMAIN CategoryValues :
                        entry.previous_counts[c]
                            = CountOffDiagonal(cmp.previous.matrix[idx], idx,
                                               CategoryValues[c])

(***************************************************************************)
(* Claims on re-ingestion.                                                 *)
(***************************************************************************)
InteractionFields == {"referrals", "one_to_ones", "tyfcbs"}

\* C24: when process_monthly_reports_batch re-ingests period P of chapter C,
\* the only records it deletes are those of (C, P): interaction records of
\* chapter C ingested for a different period, the stored reports of other
\* periods, and every record of other chapters are left unchanged.
C24_DeletesOnlyPeriod ==
    returned.op = "batch" =>
        /\ \A field \in InteractionFields :
              \A r \in RecordsOf(before[field]) :
                  r.ingested_for # ReturnedTag => r \in RecordsOf(store[field])
        /\ \A r \in before.reports :
              Tag(r.chapter, r.month_year) # ReturnedTag => r \in store.reports

\* the rows of a store without the ids the sequences gave them
Content(db) ==
    [referrals |-> [k \in DOMAIN db.referrals |->
                       [giver |-> db.referrals[k].giver.normalized_name,
                        receiver |-> db.referrals[k].receiver.normalized_name,
                        date_given |-> db.referrals[k].date_given,
                        ingested_for |-> db.referrals[k].ingested_for]],
     one_to_ones |-> [k \in DOMAIN db.one_to_ones |->
                         [member1 |-> db.one_to_ones[k].member1.normalized_name,
                          member2 |-> db.one_to_ones[k].member2.normalized_name,
                          meeting_date |-> db.one_to_ones[k].meeting_date,
                          ingested_for |-> db.one_to_ones[k].ingested_for]],
     tyfcbs |-> [k \in DOMAIN db.tyfcbs |->
                    [giver |-> db.tyfcbs[k].giver.normalized_name,
                     receiver |-> db.tyfcbs[k].receiver.normalized_name,
                     amount |-> db.tyfcbs[k].amount,
                     within_chapter |-> db.tyfcbs[k].within_chapter,
                     date_closed |-> db.tyfcbs[k].date_closed,
                     ingested_for |-> db.tyfcbs[k].ingested_for]],
     reports |-> {[r EXCEPT !.id = 0] : r \in db.reports},
     members |-> {[m EXCEPT !.id = 0] : m \in db.members}]

\* the store after the run of first and then the run of second, each from
\* its start to its end
OneAfterTheOther(first, second) ==
    StoreAfter(StoreAfter(before, <<first>>, clock), <<second>>, clock)

Overlapping == DOMAIN runs = 1..2

BothDone == Overlapping /\ \A p \in DOMAIN runs : runs[p].pc = "done"

StoredIds ==
    Ids(store.referrals) \cup Ids(store.one_to_ones) \cup Ids(store.tyfcbs)

\* at most one MonthlyReport per (chapter, month_year)
OneReportEach ==
    \A r1 \in store.reports : \A r2 \in store.reports :
        (r1.chapter = r2.chapter /\ r1.month_year = r2.month_year) => r1 = r2

\* the store does not hold records of both runs
NotBothRuns ==
    Overlapping => (runs[1].inserted \cap StoredIds = {} \/ runs[2].inserted \cap StoredIds = {})

\* the store two finished runs leave is the store they leave when executed
\* one after the other, in one of the two orders
SerialOutcome ==
    BothDone =>
        \/ Content(store) = Content(OneAfterTheOther(runs[1].req, runs[2].req))
        \/ Content(store) = Content(OneAfterTheOther(runs[2].req, runs[1].req))

Alone(req) == StoreAfter(before, <<req>>, clock)

\* both runs had read the existing report before either committed
Overlapped ==
    /\ BothDone
    /\ runs[1].existing = ReportsOf(before, runs[1].req.chapter, runs[1].req.month_year)
    /\ runs[2].existing = ReportsOf(before, runs[2].req.chapter, runs[2].req.month_year)

C25_WitnessReingest ==
    /\ Overlapped
    /\ runs[1].existing # {}
    /\ ~runs[1].result.success
    /\ runs[2].result.success
    /\ runs[2].inserted # {}
    /\ Cardinality(ReportsOf(store, "c1", "2025-07")) = 1
    /\ ReportsOf(store, "c1", "2025-07") # ReportsOf(before, "c1", "2025-07")

(***************************************************************************)
(* Claims on the results of the ingestion entry points.                    *)
(***************************************************************************)
\* C26: in the result an ingestion entry point returns, success is true
\* exactly when the returned errors list is empty, whatever the warnings
C26_SuccessIffNoErrors ==
    returned.op \in IngestionOps =>
        (returned.success <=> returned.errors = <<>>)

(***************************************************************************)
(* Claims on the rows of the slip audit table.                             *)
(***************************************************************************)
\* the loop has just left a row after the leading rows
RowDone == runs[1].idx > 3

LastRow == runs[1].df[runs[1].idx]

\* the row made a closed-business record
EmittedTyfcb ==
    Len(runs[1].results.tyfcbs_to_create) = Len(runs[1].prior.tyfcbs_to_create) + 1

LastTyfcb == runs[1].results.tyfcbs_to_create[Len(runs[1].results.tyfcbs_to_create)]

\* C27: a closed-business record without a giver comes from a row whose
\* giver cell is empty; a row that names a giver never yields a giver-less
\* record, whether or not the name resolves
C27_AbsentGiverMeansNoGiverCell ==
    (RowDone /\ EmittedTyfcb /\ LastTyfcb.giver = NoMember)
        => ~Truthy(get_cell_value(LastRow, col_giver_name))

(***************************************************************************)
(* Claims on the roster lookup.                                            *)
(***************************************************************************)
\* the bare first names of the members registered before the last one
EarlierFirstNames ==
    { Lower(runs[1].members[j].first_name) : j \in 1..(runs[1].k - 1) }

\* C28: registering a later member, under its normalized name, its lowercase
\* full name or its first name, never changes the member a bare first name
\* registered before it resolves to
C28_FirstNameKeyKept ==
    runs[1].k > 0 =>
        \A key \in EarlierFirstNames : runs[1].lookup[key] = runs[1].prior[key]

\* the member the last step registered
LastMember == runs[1].members[runs[1].k]

\* the two keys the loop writes whatever the dictionary holds
StrongKeys(member) ==
    { member.normalized_name,
      Strip(Lower(member.first_name \o <<" ">> \o member.last_name)) }

\* C28 as amended: registering a later member changes the member a bare
\* first name registered before it resolves to only when that name is the
\* later member's normalized name or lowercase full name; the registration
\* under its first name changes no key
C28_FirstNameKeyKeptByFirstNames ==
    runs[1].k > 0 =>
        \A key \in EarlierFirstNames \ StrongKeys(LastMember) :
            runs[1].lookup[key] = runs[1].prior[key]

\* a later member with the first name of an earlier one was registered and
\* the first name still resolves to the earlier member
C28_Witness ==
    /\ runs[1].k > 1
    /\ Lower(LastMember.first_name) \in EarlierFirstNames
    /\ Lower(LastMember.first_name) \notin StrongKeys(LastMember)
    /\ runs[1].lookup[Lower(LastMember.first_name)].id # LastMember.id
    /\ runs[1].lookup[Lower(LastMember.first_name)].id = runs[1].members[1].id

\* the slip-type cell of the row the loop has just left
SlipTypeCell == get_cell_value(LastRow, col_slip_type)

\* a variant of the standard type t is part of the cell, whatever the case
MatchesType(cell, t) ==
    /\ cell # None
    /\ \E k \in DOMAIN SLIP_TYPES :
          /\ SLIP_TYPES[k].type = t
          /\ \E i \in DOMAIN SLIP_TYPES[k].variations :
                Contains(Lower(cell), SLIP_TYPES[k].variations[i])

MatchesVariant(cell) ==
    \E t \in {"referral", "one_to_one", "tyfcb"} : MatchesType(cell, t)

\* the row left the three lists of prepared objects as they were
NoRecordEmitted ==
    /\ runs[1].results.referrals_to_create = runs[1].prior.referrals_to_create
    /\ runs[1].results.one_to_ones_to_create = runs[1].prior.one_to_ones_to_create
    /\ runs[1].results.tyfcbs_to_create = runs[1].prior.tyfcbs_to_create

\* the row appended the warning of an unknown slip type
UnknownSlipTypeWarned ==
    /\ Len(runs[1].results.warnings) = Len(runs[1].prior.warnings) + 1
    /\ runs[1].results.warnings[Len(runs[1].results.warnings)]
           = Warn(runs[1].idx - 1, "Unknown slip type", SlipTypeCell)

\* the referral row after the drawn row was reached and made its referral
ContinuedWithNextRow ==
    runs[1].idx = Len(runs[1].df) =>
        Len(runs[1].results.referrals_to_create)
            = Len(runs[1].prior.referrals_to_create) + 1

C29_WitnessSubstring ==
    /\ RowDone
    /\ SlipTypeCell = <<"R","E","F","E","R","R","A","L"," ","s","l","i","p">>
    /\ Len(runs[1].results.referrals_to_create)
           = Len(runs[1].prior.referrals_to_create) + 1

(***************************************************************************)
(* Claims on the decoder of the XML spreadsheets.                          *)
(***************************************************************************)
\* the cell the loop has just taken
LastCell == runs[1].cells[runs[1].j]

\* the cells emitted before it
EmittedBefore == Len(runs[1].prior.row_data)

\* the row the table holds for the decoded cells
DecodedRow == runs[1].df.rows[1]

\* C30: a cell whose explicit 1-based index k is greater than the number of
\* cells already emitted lands at position k, with empty strings in every
\* skipped position and the cells before it kept; cells at the indices 1, 3
\* and 5 give a row of length at least 5 with empty strings at 2 and 4
C30_SparseCellsFillGaps ==
    /\ (runs[1].j > 0 /\ LastCell.index > EmittedBefore)
           => /\ Len(runs[1].acc.row_data) = LastCell.index
              /\ runs[1].acc.row_data[LastCell.index] = LastCell.text
              /\ \A p \in (EmittedBefore + 1)..(LastCell.index - 1) :
                     runs[1].acc.row_data[p] = ""
              /\ \A p \in 1..EmittedBefore :
                     runs[1].acc.row_data[p] = runs[1].prior.row_data[p]
    /\ (runs[1].df # NoDataFrame
          /\ Len(runs[1].cells) = 3
          /\ runs[1].cells[1].index = 1
          /\ runs[1].cells[2].index = 3
          /\ runs[1].cells[3].index = 5)
           => /\ Len(DecodedRow) >= 5
              /\ DecodedRow[2] = "" /\ DecodedRow[4] = ""
              /\ \A i \in 1..3 : DecodedRow[2 * i - 1] = runs[1].cells[i].text
              /\ Len(runs[1].df.columns) = Len(DecodedRow)

\* the cells at the indices 1, 3 and 5, each with a text, were decoded
C30_Witness ==
    /\ runs[1].df # NoDataFrame
    /\ Len(runs[1].cells) = 3
    /\ runs[1].cells[1] = [index |-> 1, text |-> "v"]
    /\ runs[1].cells[2] = [index |-> 3, text |-> "v"]
    /\ runs[1].cells[3] = [index |-> 5, text |-> "v"]
    /\ DecodedRow = <<"v", "", "v", "", "v">>
    /\ runs[1].df.columns = <<"From", "To", "Column_2", "Column_3", "Column_4">>

\* a cell after a dense one declared an index that skips positions
C30_WitnessGap ==
    /\ runs[1].j = 2
    /\ runs[1].cells[1].index = 0
    /\ LastCell.index > EmittedBefore + 1
    /\ Len(runs[1].acc.row_data) = LastCell.index

====
